---- MODULE Spec2Model ----
(***************************************************************************)
(* Dust Container Designer (src/core-app.js): the configuration state      *)
(* machine.  The live configuration `state`, the separately tracked        *)
(* `lastValidState`, the undo / redo stacks, the pending Fix/Ignore         *)
(* decision of the error modal, the snapshot kept in localStorage and the  *)
(* last published mass-properties result; beside them the imported         *)
(* objects of the 3D scene and the bookkeeping of the collision check.     *)
(*                                                                         *)
(* Spec runs the input handlers from kickoff, SpecHist the history         *)
(* operations on long histories, SpecIO the import of configuration text,  *)
(* SpecMass the mass-properties calculation on small containers and        *)
(* SpecOverlap the collision check of every frame.                         *)
(*                                                                         *)
(* Lengths are whole millimetres.  The configurations drawn below keep W   *)
(* and L_rect even, so that W / 2 and L_rect / 2 of the lid check are      *)
(* exact in integer arithmetic.                                            *)
(***************************************************************************)
EXTENDS Integers, Sequences, FiniteSets, TLC

VARIABLES
  state,             \* let state                      (core-app.js:78)
  lastValidState,    \* let lastValidState             (core-app.js:79)
  undoStack,         \* const undoStack = []           (core-app.js:81)
  redoStack,         \* const redoStack = []           (core-app.js:82)
  pendingFixIgnore,  \* let pendingFixIgnore = null    (core-app.js:100)
  invalidMarks,      \* inputs carrying class "invalid" (markInvalid)
  stored,            \* localStorage[STORAGE_KEY]
  storageFails,      \* localStorage.setItem throws (quota, private mode)
  outputs,           \* result shown by the last updateOutputs()
  callLog,           \* the last handlers run, newest last
  nOps,              \* number of handlers run so far
  importedObjects,   \* const importedObjects = []     (core-app.js:91)
  containerPos,      \* containerGroup.position (x, y)
  selectedObject,    \* let selectedObject: 0 the container, i the i-th import
  collisionMarker,   \* let collisionMarker = null     (core-app.js:92)
  lastCollisionVolume, \* let lastCollisionVolume = 0  (core-app.js:93)
  overlapLog,        \* the last overlap checks, newest last
  pendingInvalid,    \* let pendingInvalid = null      (part_000:73)
  params,            \* let params = { ...DEFAULTS }   (part_000:1469)
  historyStack,      \* let historyStack = []          (part_000:1471)
  historyIndex       \* let historyIndex = -1          (part_000:1472)

sceneVars == <<importedObjects, containerPos, selectedObject,
               collisionMarker, lastCollisionVolume>>

vars == <<state, lastValidState, undoStack, redoStack, pendingFixIgnore,
          invalidMarks, stored, storageFails, outputs, callLog, nOps,
          sceneVars, overlapLog, pendingInvalid, params, historyStack,
          historyIndex>>

\* the state of the variants kept in part_000
earlierVars == <<pendingInvalid, params, historyStack, historyIndex>>

(***************************************************************************)
(* Bounds                                                                  *)
(***************************************************************************)
MaxOps == 3        \* handlers run per behaviour of Spec
HistOps == 5       \* handlers run per behaviour of SpecHist
HistDepth == 49    \* accepted edits made before SpecHist starts
HumidityCycle == 3 \* distinct humidity values those edits cycle through
LogLen == 3        \* handler runs remembered in callLog

NoValue == [none |-> TRUE]

\* The 3D scene after initThree(): no imported object, the container group
\* at the origin and selected, no collision marker yet.
\* The variants of part_000 are other pages: while a page of core-app.js
\* runs, their state is what their declarations leave.
NotLoaded ==
  /\ pendingInvalid = NoValue
  /\ params = NoValue
  /\ historyStack = <<>>
  /\ historyIndex = -1

InitScene ==
  /\ importedObjects = <<>>
  /\ containerPos = <<0, 0>>
  /\ selectedObject = 0
  /\ collisionMarker = NoValue
  /\ lastCollisionVolume = 0
  /\ overlapLog = <<>>

Max(a, b) == IF a >= b THEN a ELSE b
Min(a, b) == IF a <= b THEN a ELSE b
Last(s) == s[Len(s)]

(***************************************************************************)
(* Default state                                                           *)
(***************************************************************************)
DEFAULTS ==
  [ L_rect |-> 1400, x_hopper |-> 700, H |-> 900, W |-> 1300, t_wall |-> 5,
    include_frame |-> TRUE, H_frame |-> 100, W_pocket |-> 230,
    H_pocket |-> 91, S_pocket |-> 142, unlock_pockets |-> FALSE,
    include_lid |-> FALSE, t_lid |-> 3, r_hole |-> 200,
    lid_edge_length |-> 100, lid_offset_from_hopper_edge |-> 500,
    advanced_lid_material |-> FALSE, rho_lid |-> 7850,
    shell_material |-> "steel", rho_shell |-> 7850, rho_dust |-> 1850,
    humidity |-> 0, fill_percentage |-> 80,
    snap_to_grid |-> TRUE, move_step_mm |-> 50,
    show_reference_cube |-> FALSE, show_cog_empty |-> TRUE,
    show_cog_filled |-> TRUE, export_lid_with_container |-> FALSE ]

Fields == DOMAIN DEFAULTS

\* JSON.parse(JSON.stringify(obj)) of a flat object of finite numbers,
\* booleans and strings: a fresh object with the same own keys and values.
deepClone(obj) == [k \in DOMAIN obj |-> obj[k]]

\* mutant: Object.assign(parsed, deepClone(DEFAULTS))
MergeDefaultsOverParsed(parsed) ==
  [k \in Fields \cup DOMAIN parsed |->
     IF k \in Fields THEN deepClone(DEFAULTS)[k] ELSE parsed[k]]

\* Object.assign(deepClone(DEFAULTS), parsed)
MergeOverDefaults(parsed) ==
  [k \in Fields \cup DOMAIN parsed |->
     IF k \in DOMAIN parsed THEN parsed[k] ELSE deepClone(DEFAULTS)[k]]

(***************************************************************************)
(* Validation                                                              *)
(***************************************************************************)
minMargin == 20
MaxHistory == 50

\* mutant: half of the smaller side in place of a quarter
floorMaxWallHalf(c) == Min(c.W, c.L_rect) \div 2

\* Math.floor(maxWall), maxWall = Math.min(c.W, c.L_rect) / 4
floorMaxWall(c) == Min(c.W, c.L_rect) \div 4
\* mutant: the radius limit without its floor of 20
maxRNoFloor(c) == Min(c.W \div 2 - c.lid_edge_length,
                      c.L_rect \div 2 - c.lid_edge_length)

maxR(c) == Max(20, Min(c.W \div 2 - c.lid_edge_length,
                       c.L_rect \div 2 - c.lid_edge_length))
\* mutant: the margin counted on one side only
neededWidthOneMargin(c) == 2 * c.W_pocket + c.S_pocket + minMargin

neededWidth(c) == 2 * c.W_pocket + c.S_pocket + 2 * minMargin

\* mutant: the pocket budget checked before the frame height
validateCandidatePocketsFirst(c) ==
  IF c.L_rect <= 0 \/ c.H <= 0 \/ c.W <= 0 \/ c.t_wall <= 0 THEN
    [ok |-> FALSE, check |-> "positive",
     message |-> "All main dimensions (L_rect, H, W, t_wall) must be > 0.",
     fields |-> <<"input-l-rect", "input-h", "input-w", "input-t-wall">>]
  ELSE IF 2 * c.t_wall >= c.W \/ 2 * c.t_wall >= c.L_rect THEN
    [ok |-> FALSE, check |-> "wall",
     message |-> "Wall thickness too large relative to width/length - inner cavity would collapse.",
     fields |-> <<"input-t-wall">>]
  ELSE IF c.x_hopper < 0 \/ c.x_hopper > c.L_rect THEN
    [ok |-> FALSE, check |-> "hopper",
     message |-> "x_hopper must be between 0 and L_rect (wedge cannot be longer than the rectangular part).",
     fields |-> <<"input-x-hopper", "input-l-rect">>]
  ELSE IF c.include_frame /\ neededWidth(c) > c.W THEN
    [ok |-> FALSE, check |-> "pockets",
     message |-> "Forklift pockets + spacing need more width than available. Reduce pocket width/spacing or increase container width.",
     fields |-> <<"input-w-pocket", "input-s-pocket", "input-w">>]
  ELSE IF c.include_frame /\ c.H_frame >= c.H THEN
    [ok |-> FALSE, check |-> "frame",
     message |-> "Frame height H_frame should be smaller than container height H.",
     fields |-> <<"input-h-frame", "input-h">>]
  ELSE IF c.include_lid /\ c.r_hole > maxR(c) THEN
    [ok |-> FALSE, check |-> "lid",
     message |-> "Lid hole radius too large; ring edge would become negative.",
     fields |-> <<"input-r-hole", "input-lid-edge">>]
  ELSE
    [ok |-> TRUE, check |-> "none", message |-> "", fields |-> <<>>]

\* The result object of validateCandidate; `check` names the branch that
\* returned and stands for its fix closure.
validateCandidate(c) ==
  IF c.L_rect <= 0 \/ c.H <= 0 \/ c.W <= 0 \/ c.t_wall <= 0 THEN
    [ok |-> FALSE, check |-> "positive",
     message |-> "All main dimensions (L_rect, H, W, t_wall) must be > 0.",
     fields |-> <<"input-l-rect", "input-h", "input-w", "input-t-wall">>]
  ELSE IF 2 * c.t_wall >= c.W \/ 2 * c.t_wall >= c.L_rect THEN
    [ok |-> FALSE, check |-> "wall",
     message |-> "Wall thickness too large relative to width/length - inner cavity would collapse.",
     fields |-> <<"input-t-wall">>]
  ELSE IF c.x_hopper < 0 \/ c.x_hopper > c.L_rect THEN
    [ok |-> FALSE, check |-> "hopper",
     message |-> "x_hopper must be between 0 and L_rect (wedge cannot be longer than the rectangular part).",
     fields |-> <<"input-x-hopper", "input-l-rect">>]
  ELSE IF c.include_frame /\ c.H_frame >= c.H THEN
    [ok |-> FALSE, check |-> "frame",
     message |-> "Frame height H_frame should be smaller than container height H.",
     fields |-> <<"input-h-frame", "input-h">>]
  ELSE IF c.include_frame /\ neededWidth(c) > c.W THEN
    [ok |-> FALSE, check |-> "pockets",
     message |-> "Forklift pockets + spacing need more width than available. Reduce pocket width/spacing or increase container width.",
     fields |-> <<"input-w-pocket", "input-s-pocket", "input-w">>]
  ELSE IF c.include_lid /\ c.r_hole > maxR(c) THEN
    [ok |-> FALSE, check |-> "lid",
     message |-> "Lid hole radius too large; ring edge would become negative.",
     fields |-> <<"input-r-hole", "input-lid-edge">>]
  ELSE
    [ok |-> TRUE, check |-> "none", message |-> "", fields |-> <<>>]

\* mutant: the pocket remedy widening the container instead
fixWidensContainer(check, c) ==
  CASE check = "positive" ->
         [c EXCEPT !.L_rect = Max(c.L_rect, 100), !.H = Max(c.H, 100),
                   !.W = Max(c.W, 100), !.t_wall = Max(c.t_wall, 2)]
    [] check = "wall" ->
         [c EXCEPT !.t_wall = Max(2, floorMaxWall(c))]
    [] check = "hopper" ->
         [c EXCEPT !.x_hopper = Max(0, Min(c.x_hopper, c.L_rect))]
    [] check = "frame" ->
         [c EXCEPT !.H_frame = Max(30, c.H \div 3)]
    [] check = "pockets" ->
         [c EXCEPT !.W = neededWidth(c)]
    [] check = "lid" ->
         [c EXCEPT !.r_hole = maxR(c)]
    [] OTHER -> c

\* v.fix(): the remedy closure of the branch `check`, applied to candidate c.
fix(check, c) ==
  CASE check = "positive" ->
         [c EXCEPT !.L_rect = Max(c.L_rect, 100), !.H = Max(c.H, 100),
                   !.W = Max(c.W, 100), !.t_wall = Max(c.t_wall, 2)]
    [] check = "wall" ->
         [c EXCEPT !.t_wall = Max(2, floorMaxWall(c))]
    [] check = "hopper" ->
         [c EXCEPT !.x_hopper = Max(0, Min(c.x_hopper, c.L_rect))]
    [] check = "frame" ->
         [c EXCEPT !.H_frame = Max(30, c.H \div 3)]
    [] check = "pockets" ->
         [c EXCEPT !.W_pocket =
            Max(50, ((c.W - 2 * minMargin) - c.S_pocket) \div 2)]
    [] check = "lid" ->
         [c EXCEPT !.r_hole = maxR(c)]
    [] OTHER -> c

(***************************************************************************)
(* Centres of gravity.  Coordinates are in units of 1/6 mm (L/2, x/3 and   *)
(* H/3 are whole numbers then); a centroid is kept as the sums vx, vy, vz  *)
(* and vt of weightedCentroid, standing for (vx/vt, vy/vt, vz/vt).         *)
(***************************************************************************)
RECURSIVE sums(_)
sums(components) ==
  IF components = <<>> THEN [x |-> 0, y |-> 0, z |-> 0, w |-> 0]
  ELSE LET c == components[1]
           rest == sums(Tail(components))
       IN IF c.c = NoValue THEN rest
          ELSE [x |-> rest.x + c.v * c.c.x, y |-> rest.y + c.v * c.c.y,
                z |-> rest.z + c.v * c.c.z, w |-> rest.w + c.v]

weightedCentroid(components) ==
  LET acc == sums(components)
  IN IF acc.w <= 0 THEN NoValue ELSE acc

\* the component pushed onto compsEmpty if its volume is positive
comp(V, v, c) == IF V > 0 THEN <<[v |-> v, c |-> c]>> ELSE <<>>

\* mutant: the filled centre of gravity combined whenever dust is present
cogFilledAnyMass(cog_empty, cog_dust, M1, M2) ==
  IF cog_empty # NoValue /\ cog_dust # NoValue
    THEN [M1 |-> M1, c1 |-> cog_empty, M2 |-> M2, c2 |-> cog_dust]
  ELSE IF cog_empty # NoValue THEN cog_empty
  ELSE NoValue

\* cog_filled: the combination (M1 c1 + M2 c2) / (M1 + M2), kept as its
\* two weights and points, or cog_empty, or null
cogFilled(cog_empty, cog_dust, M1, M2) ==
  IF cog_empty # NoValue /\ cog_dust # NoValue /\ M2 > 0 /\ M1 > 0
    THEN [M1 |-> M1, c1 |-> cog_empty, M2 |-> M2, c2 |-> cog_dust]
  ELSE IF cog_empty # NoValue THEN cog_empty
  ELSE NoValue

\* cog_dust = { x: L / 2, y: 0, z: (H_in / 2) * fillFrac } if there is dust
cogDust(L, H_in, fillPct, V_fill, V_internal) ==
  IF V_fill > 0 /\ V_internal > 0
    THEN [x |-> 300 * L, y |-> 0, z |-> 3 * H_in * fillPct, w |-> 100]
    ELSE NoValue

(***************************************************************************)
(* Calculations for volume and mass (whole mm^3; 0.001 m = 1 mm).  So that *)
(* no sum or product leaves 32 bits, the outer, shell and lid volumes that *)
(* enter a mass are taken in whole units of 100 cm^3 (masses in units of   *)
(* 0.1 g) and the weights of the centroids in whole units of 10 cm^3.      *)
(***************************************************************************)
computeVolumesAndMasses(s) ==
  LET L == s.L_rect
      H == s.H
      W == s.W
      x == s.x_hopper
      Hf == s.H_frame
      t == s.t_wall
      L_in == Max(1, L - 2 * t)
      W_in == Max(1, W - 2 * t)
      H_in == Max(1, H - t)
      x_in == Max(0, x - t)
      V_rect_in == L_in * W_in * H_in
      V_hopper_in == (x_in * H_in * W_in) \div 2
      V_internal == V_rect_in + V_hopper_in
      fillPct == Min(100, Max(0, s.fill_percentage))
      V_fill == (V_internal \div 100) * fillPct
                  + ((V_internal % 100) * fillPct) \div 100
      V_rect_out == L * W * H
      V_hopper_out == IF x > 0 THEN (x * H * W) \div 2 ELSE 0
      V_frame_out == IF s.include_frame THEN L * W * Hf ELSE 0
      V_pockets == IF s.include_frame
                        /\ 2 * s.W_pocket + s.S_pocket <= W - 2 * minMargin
                     THEN 2 * (L * s.W_pocket * s.H_pocket)
                     ELSE 0
      V_outer == V_rect_out \div 100000 + V_hopper_out \div 100000
                   + V_frame_out \div 100000
      V_shell == Max(0, V_outer - V_internal \div 100000
                          - V_pockets \div 100000)
      rhoShell == s.rho_shell
      rhoLid == IF s.advanced_lid_material THEN s.rho_lid ELSE rhoShell
      V_lid == IF s.include_lid
                 THEN Max(0, (L * W - (355 * (s.r_hole * s.r_hole)) \div 113)
                               * s.t_lid)
                 ELSE 0
      m_shell == V_shell * rhoShell
      m_lid == (V_lid \div 100000) * (IF s.include_lid THEN rhoLid ELSE 0)
      m_dust == (V_fill \div 100000) * s.rho_dust
      m_empty == m_shell + m_lid
      c_rect == [x |-> 3 * L, y |-> 0, z |-> 3 * H]
      c_hopper == IF x > 0 THEN [x |-> 0 - 2 * x, y |-> 0, z |-> 2 * H]
                  ELSE NoValue
      c_frame == IF s.include_frame
                   THEN [x |-> 3 * L, y |-> 0, z |-> 3 * Hf]
                   ELSE NoValue
      c_lid == IF s.include_lid /\ V_lid > 0
                 THEN [x |-> 3 * L, y |-> 0, z |-> 6 * H + 3 * s.t_lid]
                 ELSE NoValue
      compsEmpty == comp(V_rect_out, V_rect_out \div 10000, c_rect)
                      \o comp(V_hopper_out, V_hopper_out \div 10000,
                              c_hopper)
                      \o comp(V_frame_out, V_frame_out \div 10000, c_frame)
                      \o (IF s.include_lid
                            THEN comp(V_lid, V_lid \div 10000, c_lid)
                            ELSE <<>>)
      cog_empty == weightedCentroid(compsEmpty)
      cog_dust == cogDust(L, H_in, fillPct, V_fill, V_internal)
      cog_filled == cogFilled(cog_empty, cog_dust, m_empty, m_dust)
  IN [V_internal |-> V_internal, V_fill |-> V_fill, m_shell |-> m_shell,
      m_lid |-> m_lid, m_dust |-> m_dust, cog_empty |-> cog_empty,
      cog_filled |-> cog_filled]

(***************************************************************************)
(* State load/save & undo/redo                                             *)
(***************************************************************************)
Absent == [kind |-> "absent"]
Corrupt == [kind |-> "corrupt"]
Json(obj) == [kind |-> "json", obj |-> obj]

\* loadState(): the configuration it leaves in `state`
loadState(raw) ==
  IF raw.kind = "json" THEN MergeOverDefaults(raw.obj)
  ELSE deepClone(DEFAULTS)

\* mutant: the snapshot written before the handler assigns `state`
saveStateBeforeAssign(s) ==
  IF storageFails THEN stored ELSE Json(deepClone(state))

\* saveState(): the value under STORAGE_KEY afterwards
saveState(s) == IF storageFails THEN stored ELSE Json(deepClone(s))

\* mutant: the snapshot taken of lastValidState instead of state
pushUndoLastValid(cur) ==
  LET pushed == Append(undoStack, deepClone(lastValidState))
  IN [undo |-> IF Len(pushed) > MaxHistory THEN Tail(pushed) ELSE pushed,
      redo |-> <<>>]

\* mutant: the redo stack left alone
pushUndoKeepsRedo(cur) ==
  LET pushed == Append(undoStack, deepClone(cur))
  IN [undo |-> IF Len(pushed) > MaxHistory THEN Tail(pushed) ELSE pushed,
      redo |-> redoStack]

\* mutant: pop() in place of shift() on overflow
pushUndoPopsNewest(cur) ==
  LET pushed == Append(undoStack, deepClone(cur))
  IN [undo |-> IF Len(pushed) > MaxHistory
                 THEN SubSeq(pushed, 1, Len(pushed) - 1) ELSE pushed,
      redo |-> <<>>]

\* pushUndo(): the two stacks afterwards, `cur` being `state` at the call
pushUndo(cur) ==
  LET pushed == Append(undoStack, deepClone(cur))
  IN [undo |-> IF Len(pushed) > MaxHistory THEN Tail(pushed) ELSE pushed,
      redo |-> <<>>]

\* markInvalid(fields): the inputs that carry class "invalid" afterwards
markInvalid(fields) == {fields[i] : i \in 1..Len(fields)}

Front(s) == SubSeq(s, 1, Len(s) - 1)

\* One handler run: which handler, how it ended, the configuration that was
\* current when it called commitState (or when it started), the candidate
\* it validated, and the collaborators it called.
Call(op, outcome, P, C, calls) ==
  [op |-> op, outcome |-> outcome, P |-> P, C |-> C, calls |-> calls]

Logged(rec) ==
  LET a == Append(callLog, rec)
  IN callLog' = IF Len(a) > LogLen THEN Tail(a) ELSE a

AcceptCalls == {"pushUndo", "applyStateToInputs", "rebuildGeometry",
                "updateOutputs", "saveState"}

\* commitState(newState, msg), called by handler `op` while `state` is cur
commitState(cur, newState, op) ==
  LET candidate == deepClone(newState)
      v == validateCandidate(candidate)
  IN IF ~v.ok THEN
       /\ invalidMarks' = markInvalid(v.fields)
       /\ pendingFixIgnore' = [candidate |-> candidate, v |-> v]
       /\ state' = cur
       /\ UNCHANGED <<lastValidState, undoStack, redoStack, stored, outputs>>
       /\ Logged(Call(op, "pending", cur, candidate, {"showModal"}))
     ELSE
       /\ invalidMarks' = markInvalid(<<>>)
       /\ undoStack' = pushUndo(cur).undo
       /\ redoStack' = pushUndo(cur).redo
       /\ state' = candidate
       /\ lastValidState' = deepClone(candidate)
       /\ outputs' = computeVolumesAndMasses(candidate)
       /\ stored' = saveState(candidate)
       /\ UNCHANGED pendingFixIgnore
       /\ Logged(Call(op, "accepted", cur, candidate, AcceptCalls))

\* the onFix closure handed to showModal, for the pending decision p
onFix(p) ==
  LET fixed == fix(p.v.check, p.candidate)
  IN /\ state' = fixed
     /\ lastValidState' = deepClone(fixed)
     /\ invalidMarks' = markInvalid(<<>>)
     /\ undoStack' = pushUndo(fixed).undo
     /\ redoStack' = pushUndo(fixed).redo
     /\ outputs' = computeVolumesAndMasses(fixed)
     /\ stored' = saveState(fixed)
     /\ Logged(Call("fix", "fixed", state, p.candidate, AcceptCalls))

\* mutant: Ignore finishing like an accepted change (recompute and save)
onIgnoreRecomputes(p) ==
  /\ state' = deepClone(lastValidState)
  /\ invalidMarks' = markInvalid(<<>>)
  /\ outputs' = computeVolumesAndMasses(lastValidState)
  /\ stored' = saveState(lastValidState)
  /\ UNCHANGED <<lastValidState, undoStack, redoStack>>
  /\ Logged(Call("ignore", "ignored", state, p.candidate,
                 {"applyStateToInputs", "updateOutputs", "saveState"}))

\* the onIgnore closure handed to showModal
onIgnore(p) ==
  /\ state' = deepClone(lastValidState)
  /\ invalidMarks' = markInvalid(<<>>)
  /\ UNCHANGED <<lastValidState, undoStack, redoStack, outputs, stored>>
  /\ Logged(Call("ignore", "ignored", state, p.candidate,
                 {"applyStateToInputs"}))

\* mutant: the Fix button without closeModal()
FixClickKeepsPending ==
  /\ IF pendingFixIgnore # NoValue
       THEN onFix(pendingFixIgnore)
       ELSE /\ UNCHANGED <<state, lastValidState, invalidMarks, undoStack,
                           redoStack, outputs, stored>>
            /\ Logged(Call("fix", "noop", state, state, {}))
  /\ UNCHANGED <<pendingFixIgnore, storageFails>>

\* click on btn-error-fix: onFix if a decision is pending, then closeModal
FixClick ==
  /\ IF pendingFixIgnore # NoValue
       THEN onFix(pendingFixIgnore)
       ELSE /\ UNCHANGED <<state, lastValidState, invalidMarks, undoStack,
                           redoStack, outputs, stored>>
            /\ Logged(Call("fix", "noop", state, state, {}))
  /\ pendingFixIgnore' = NoValue
  /\ UNCHANGED storageFails

\* click on btn-error-ignore
IgnoreClick ==
  /\ IF pendingFixIgnore # NoValue
       THEN onIgnore(pendingFixIgnore)
       ELSE /\ UNCHANGED <<state, lastValidState, invalidMarks, undoStack,
                           redoStack, outputs, stored>>
            /\ Logged(Call("ignore", "noop", state, state, {}))
  /\ pendingFixIgnore' = NoValue
  /\ UNCHANGED storageFails

\* mutant: the snapshot written before `state = prev`, the failed write
\* ending the handler there
undoSavesFirst ==
  /\ IF Len(undoStack) = 0
       THEN /\ UNCHANGED <<state, lastValidState, undoStack, redoStack,
                           outputs, stored>>
            /\ Logged(Call("undo", "noop", state, state, {}))
       ELSE LET prev == Last(undoStack)
            IN /\ undoStack' = Front(undoStack)
               /\ redoStack' = Append(redoStack, deepClone(state))
               /\ state' = IF storageFails THEN state ELSE prev
               /\ lastValidState' =
                    IF storageFails THEN lastValidState ELSE deepClone(prev)
               /\ outputs' = IF storageFails THEN outputs
                             ELSE computeVolumesAndMasses(prev)
               /\ stored' = saveState(prev)
               /\ Logged(Call("undo", "done", state, state,
                              AcceptCalls \ {"pushUndo"}))
  /\ UNCHANGED <<pendingFixIgnore, invalidMarks, storageFails>>

\* mutant: undo() without the push of the current configuration
undoDropsCurrent ==
  /\ IF Len(undoStack) = 0
       THEN /\ UNCHANGED <<state, lastValidState, undoStack, redoStack,
                           outputs, stored>>
            /\ Logged(Call("undo", "noop", state, state, {}))
       ELSE LET prev == Last(undoStack)
            IN /\ undoStack' = Front(undoStack)
               /\ redoStack' = redoStack
               /\ state' = prev
               /\ lastValidState' = deepClone(prev)
               /\ outputs' = computeVolumesAndMasses(prev)
               /\ stored' = saveState(prev)
               /\ Logged(Call("undo", "done", state, state,
                              AcceptCalls \ {"pushUndo"}))
  /\ UNCHANGED <<pendingFixIgnore, invalidMarks, storageFails>>

undo ==
  /\ IF Len(undoStack) = 0
       THEN /\ UNCHANGED <<state, lastValidState, undoStack, redoStack,
                           outputs, stored>>
            /\ Logged(Call("undo", "noop", state, state, {}))
       ELSE LET prev == Last(undoStack)
            IN /\ undoStack' = Front(undoStack)
               /\ redoStack' = Append(redoStack, deepClone(state))
               /\ state' = prev
               /\ lastValidState' = deepClone(prev)
               /\ outputs' = computeVolumesAndMasses(prev)
               /\ stored' = saveState(prev)
               /\ Logged(Call("undo", "done", state, state,
                              AcceptCalls \ {"pushUndo"}))
  /\ UNCHANGED <<pendingFixIgnore, invalidMarks, storageFails>>

\* mutant: redo() without the push of the current configuration
redoDropsCurrent ==
  /\ IF Len(redoStack) = 0
       THEN /\ UNCHANGED <<state, lastValidState, undoStack, redoStack,
                           outputs, stored>>
            /\ Logged(Call("redo", "noop", state, state, {}))
       ELSE LET next == Last(redoStack)
            IN /\ redoStack' = Front(redoStack)
               /\ undoStack' = undoStack
               /\ state' = next
               /\ lastValidState' = deepClone(next)
               /\ outputs' = computeVolumesAndMasses(next)
               /\ stored' = saveState(next)
               /\ Logged(Call("redo", "done", state, state,
                              AcceptCalls \ {"pushUndo"}))
  /\ UNCHANGED <<pendingFixIgnore, invalidMarks, storageFails>>

\* mutant: redo() reading the newest redo entry without popping it
redoKeepsEntry ==
  /\ IF Len(redoStack) = 0
       THEN /\ UNCHANGED <<state, lastValidState, undoStack, redoStack,
                           outputs, stored>>
            /\ Logged(Call("redo", "noop", state, state, {}))
       ELSE LET next == Last(redoStack)
            IN /\ redoStack' = redoStack
               /\ undoStack' = Append(undoStack, deepClone(state))
               /\ state' = next
               /\ lastValidState' = deepClone(next)
               /\ outputs' = computeVolumesAndMasses(next)
               /\ stored' = saveState(next)
               /\ Logged(Call("redo", "done", state, state,
                              AcceptCalls \ {"pushUndo"}))
  /\ UNCHANGED <<pendingFixIgnore, invalidMarks, storageFails>>

redo ==
  /\ IF Len(redoStack) = 0
       THEN /\ UNCHANGED <<state, lastValidState, undoStack, redoStack,
                           outputs, stored>>
            /\ Logged(Call("redo", "noop", state, state, {}))
       ELSE LET next == Last(redoStack)
            IN /\ redoStack' = Front(redoStack)
               /\ undoStack' = Append(undoStack, deepClone(state))
               /\ state' = next
               /\ lastValidState' = deepClone(next)
               /\ outputs' = computeVolumesAndMasses(next)
               /\ stored' = saveState(next)
               /\ Logged(Call("redo", "done", state, state,
                              AcceptCalls \ {"pushUndo"}))
  /\ UNCHANGED <<pendingFixIgnore, invalidMarks, storageFails>>

(***************************************************************************)
(* UI wiring                                                               *)
(***************************************************************************)
\* The values typed, dragged or ticked into the bound inputs.
Edits ==
  { <<"W", 0>>, <<"t_wall", 650>>, <<"x_hopper", -100>>,
    <<"H_frame", 900>>, <<"W_pocket", 560>>, <<"r_hole", 900>>,
    <<"include_lid", TRUE>>, <<"include_frame", FALSE>> }

FillInputs == {150}
ShellMaterials == {"aluminum"}

\* Texts pasted into the import prompt.
ImportTexts ==
  { Corrupt,
    Json([H_frame |-> 1000, W_pocket |-> 700, include_lid |-> TRUE,
          r_hole |-> 900]) }

\* What localStorage holds under STORAGE_KEY when the page is opened.
InitStored ==
  { Absent, Corrupt, Json([humidity |-> 50, W_pocket |-> 700]) }

\* bindRangeNumber / hookNumber / hookCheck handlers: s = deepClone(state);
\* s[key] = v; commitState(s, msg)
apply(key, v) ==
  LET s == [deepClone(state) EXCEPT ![key] = v]
  IN /\ commitState(state, s, "edit")
     /\ UNCHANGED storageFails

EditField == \E e \in Edits : apply(e[1], e[2])

\* input-fill-perc handler
FillPercChange ==
  \E v \in FillInputs :
    LET s == [deepClone(state) EXCEPT
                !.fill_percentage = Max(0, Min(100, v))]
    IN /\ commitState(state, s, "fill")
       /\ UNCHANGED storageFails

shellDensity(s) ==
  IF s.shell_material = "steel" THEN 7850
  ELSE IF s.shell_material = "stainless" THEN 8000
  ELSE IF s.shell_material = "aluminum" THEN 2700
  ELSE s.rho_shell

\* select-shell-material handler: assigns `state = s` before commitState(s)
ShellMaterialChange ==
  \E m \in ShellMaterials :
    LET s0 == [deepClone(state) EXCEPT !.shell_material = m]
        s == [s0 EXCEPT !.rho_shell = shellDensity(s0)]
    IN /\ commitState(s, s, "shell")
       /\ UNCHANGED storageFails

Empty == [kind |-> "empty"]

\* mutant: the catch branch falling back to the defaults
importConfigOnFallsBack(text) ==
  /\ IF text.kind = "empty"
       THEN /\ UNCHANGED <<state, lastValidState, undoStack, redoStack,
                           pendingFixIgnore, invalidMarks, stored, outputs>>
            /\ Logged(Call("import", "cancelled", state, state, {}))
     ELSE IF text.kind = "json"
       THEN commitState(state, MergeOverDefaults(text.obj), "import")
       ELSE /\ state' = deepClone(DEFAULTS)
            /\ UNCHANGED <<lastValidState, undoStack, redoStack,
                           pendingFixIgnore, invalidMarks, stored, outputs>>
            /\ Logged(Call("import", "rejected", state, state, {"alert"}))
  /\ UNCHANGED storageFails

\* importConfig() on the text the prompt returned: `if (!text) return`,
\* then JSON.parse throws on malformed text -> alert, no commit
importConfigOn(text) ==
  /\ IF text.kind = "empty"
       THEN /\ UNCHANGED <<state, lastValidState, undoStack, redoStack,
                           pendingFixIgnore, invalidMarks, stored, outputs>>
            /\ Logged(Call("import", "cancelled", state, state, {}))
     ELSE IF text.kind = "json"
       THEN commitState(state, MergeOverDefaults(text.obj), "import")
       ELSE /\ UNCHANGED <<state, lastValidState, undoStack, redoStack,
                           pendingFixIgnore, invalidMarks, stored, outputs>>
            /\ Logged(Call("import", "rejected", state, state, {"alert"}))
  /\ UNCHANGED storageFails

importConfig == \E text \in ImportTexts : importConfigOn(text)

\* Own keys in the order JSON.stringify writes them: the keys of DEFAULTS
\* in declaration order, then keys an import added.
KeyOrder ==
  << "L_rect", "x_hopper", "H", "W", "t_wall", "include_frame", "H_frame",
     "W_pocket", "H_pocket", "S_pocket", "unlock_pockets", "include_lid",
     "t_lid", "r_hole", "lid_edge_length", "lid_offset_from_hopper_edge",
     "advanced_lid_material", "rho_lid", "shell_material", "rho_shell",
     "rho_dust", "humidity", "fill_percentage", "snap_to_grid",
     "move_step_mm", "show_reference_cube", "show_cog_empty",
     "show_cog_filled", "export_lid_with_container", "legacy_field" >>

\* mutant: only the keys of DEFAULTS are written
JSONstringifyKnownKeys(obj) ==
  LET keys == SelectSeq(KeyOrder, LAMBDA k : k \in DOMAIN obj \cap Fields)
  IN [i \in 1..Len(keys) |-> <<keys[i], obj[keys[i]]>>]

\* JSON.stringify(obj, null, 2): the text as its sequence of key: value
\* members (finite numbers, booleans and strings are written as they are)
JSONstringify(obj) ==
  LET keys == SelectSeq(KeyOrder, LAMBDA k : k \in DOMAIN obj)
  IN [i \in 1..Len(keys) |-> <<keys[i], obj[keys[i]]>>]

\* JSON.parse of such a text: the last member of a key wins
JSONparse(text) ==
  [k \in {text[i][1] : i \in 1..Len(text)} |->
     text[CHOOSE i \in 1..Len(text) :
            /\ text[i][1] = k
            /\ \A j \in (i + 1)..Len(text) : text[j][1] # k][2]]

\* exportConfig(): the text put on the clipboard
exportConfig == JSONstringify(state)

\* exportConfig() and then importConfig() with the exported text pasted
\* into the prompt
exportThenImport ==
  /\ commitState(state, MergeOverDefaults(JSONparse(exportConfig)),
                 "reimport")
  /\ UNCHANGED storageFails

\* btn-reset-defaults handler (confirmed)
ResetDefaults ==
  /\ state' = deepClone(DEFAULTS)
  /\ lastValidState' = deepClone(DEFAULTS)
  /\ undoStack' = <<>>
  /\ redoStack' = <<>>
  /\ outputs' = computeVolumesAndMasses(deepClone(DEFAULTS))
  /\ stored' = saveState(deepClone(DEFAULTS))
  /\ Logged(Call("reset", "done", state, state,
                 AcceptCalls \ {"pushUndo"}))
  /\ UNCHANGED <<pendingFixIgnore, invalidMarks, storageFails>>

(***************************************************************************)
(* Kickoff: loadState(); applyStateToInputs(); setupUI(); updateOutputs()  *)
(***************************************************************************)
Init ==
  /\ stored \in InitStored
  /\ storageFails \in BOOLEAN
  /\ state = loadState(stored)
  /\ lastValidState = deepClone(loadState(stored))
  /\ undoStack = <<>>
  /\ redoStack = <<>>
  /\ pendingFixIgnore = NoValue
  /\ invalidMarks = {}
  /\ outputs = computeVolumesAndMasses(loadState(stored))
  /\ callLog = <<>>
  /\ nOps = 0
  /\ InitScene
  /\ NotLoaded

\* The handlers below leave the imported objects and the collision
\* bookkeeping alone; with no imported object the updateCollisions() of
\* every frame changes nothing either.
Tick ==
  /\ nOps < MaxOps /\ nOps' = nOps + 1
  /\ UNCHANGED <<sceneVars, overlapLog, earlierVars>>

Next ==
  \/ Tick /\ EditField
  \/ Tick /\ FillPercChange
  \/ Tick /\ ShellMaterialChange
  \/ Tick /\ importConfig
  \/ Tick /\ ResetDefaults
  \/ Tick /\ FixClick
  \/ Tick /\ IgnoreClick
  \/ Tick /\ undo
  \/ Tick /\ redo

Spec == Init /\ [][Next]_vars

(***************************************************************************)
(* Long histories.  SpecHist starts either at kickoff or after HistDepth   *)
(* accepted edits of the humidity input (0, 1, 2, 0, ... from the default  *)
(* configuration), and then runs the history operations with one valid     *)
(* and one invalid edit.                                                   *)
(***************************************************************************)
HistConfig(i) == [deepClone(DEFAULTS) EXCEPT !.humidity = i % HumidityCycle]

HistLog(n) ==
  LET from == Max(1, n - LogLen + 1)
  IN [j \in 1..(n - from + 1) |->
        Call("edit", "accepted", HistConfig(from + j - 2),
             HistConfig(from + j - 1), AcceptCalls)]

InitHist ==
  \E n \in {0, HistDepth} :
    /\ storageFails \in BOOLEAN
    /\ stored = IF storageFails \/ n = 0 THEN Absent ELSE Json(HistConfig(n))
    /\ state = HistConfig(n)
    /\ lastValidState = deepClone(HistConfig(n))
    /\ undoStack = [i \in 1..n |-> HistConfig(i - 1)]
    /\ redoStack = <<>>
    /\ pendingFixIgnore = NoValue
    /\ invalidMarks = {}
    /\ outputs = computeVolumesAndMasses(HistConfig(n))
    /\ callLog = HistLog(n)
    /\ nOps = 0
    /\ InitScene
    /\ NotLoaded

TickHist ==
  /\ nOps < HistOps /\ nOps' = nOps + 1
  /\ UNCHANGED <<sceneVars, overlapLog, earlierVars>>

HistEdit == apply("humidity", (state.humidity + 1) % HumidityCycle)
HistBadEdit == apply("t_wall", 650)

NextHist ==
  \/ TickHist /\ HistEdit
  \/ TickHist /\ HistBadEdit
  \/ TickHist /\ FixClick
  \/ TickHist /\ IgnoreClick
  \/ TickHist /\ undo
  \/ TickHist /\ redo

SpecHist == InitHist /\ [][NextHist]_vars

(***************************************************************************)
(* Import of configuration text.  SpecIO starts at kickoff and pastes      *)
(* texts into the import prompt, resolving the modal and walking the       *)
(* history in between.                                                     *)
(***************************************************************************)
IOTexts ==
  { Empty, Corrupt,
    Json([t_wall |-> 400]),
    Json([t_wall |-> 650]),
    Json([include_lid |-> TRUE, lid_edge_length |-> 700, r_hole |-> 900]),
    Json([include_lid |-> TRUE, r_hole |-> 551]),
    Json([humidity |-> 7, legacy_field |-> 1]),
    Json([fill_percentage |-> 150]) }

importConfigIO == \E text \in IOTexts : importConfigOn(text)

NextIO ==
  \/ Tick /\ importConfigIO
  \/ Tick /\ exportThenImport
  \/ Tick /\ FixClick
  \/ Tick /\ IgnoreClick
  \/ Tick /\ undo
  \/ Tick /\ redo

SpecIO == Init /\ [][NextIO]_vars

(***************************************************************************)
(* Mass properties in exact arithmetic.  computeVolumesAndMassesExact is   *)
(* computeVolumesAndMasses with its shell, lid and mass results, every     *)
(* result an integer multiple of the unit named beside it (Math.PI is      *)
(* taken as 355/113).  The products exceed 32-bit integers for             *)
(* metre-sized containers, so SpecMass opens the page on persisted         *)
(* snapshots of centimetre-sized ones and runs the updateOutputs() of the  *)
(* kickoff.                                                                *)
(***************************************************************************)
\* mutant: the fill fraction taken as typed, without Math.min / Math.max
fillFracUnclamped(s) == s.fill_percentage

\* fillFrac = Math.min(1, Math.max(0, fill_percentage / 100)), in percent
fillFrac(s) == Min(100, Max(0, s.fill_percentage))

computeVolumesAndMassesExact(s) ==
  LET L == s.L_rect
      H == s.H
      W == s.W
      x == s.x_hopper
      Hf == s.H_frame
      t == s.t_wall
      L_in == Max(1, L - 2 * t)
      W_in == Max(1, W - 2 * t)
      H_in == Max(1, H - t)
      x_in == Max(0, x - t)
      V_internal == 2 * (L_in * W_in * H_in) + x_in * H_in * W_in
      V_fill == V_internal * fillFrac(s)
      V_rect_out == 2 * (L * W * H)
      V_hopper_out == IF x > 0 THEN x * H * W ELSE 0
      V_frame_out == IF s.include_frame THEN 2 * (L * W * Hf) ELSE 0
      Wp == s.W_pocket
      Hp == s.H_pocket
      Sp == s.S_pocket
      V_pockets == IF s.include_frame /\ 2 * Wp + Sp <= W - 2 * minMargin
                     THEN 2 * (2 * (L * Wp * Hp)) ELSE 0
      V_outer == V_rect_out + V_hopper_out + V_frame_out
      V_shell == Max(0, V_outer - V_internal - V_pockets)
      rhoShell == s.rho_shell
      rhoDust == s.rho_dust
      rhoLid == IF s.advanced_lid_material THEN s.rho_lid ELSE rhoShell
      V_lid == IF s.include_lid
                 THEN Max(0, (113 * (L * W) - 355 * (s.r_hole * s.r_hole))
                               * s.t_lid)
                 ELSE 0
      m_shell == V_shell * rhoShell
      m_lid == V_lid * (IF s.include_lid THEN rhoLid ELSE 0)
      m_dust == V_fill * rhoDust
      m_empty == 113 * m_shell + 2 * m_lid
      m_total == 100 * m_empty + 113 * m_dust
      c_rect == [x |-> 3 * L, y |-> 0, z |-> 3 * H]
      c_hopper == IF x > 0 THEN [x |-> 0 - 2 * x, y |-> 0, z |-> 2 * H]
                  ELSE NoValue
      c_frame == IF s.include_frame
                   THEN [x |-> 3 * L, y |-> 0, z |-> 3 * Hf]
                   ELSE NoValue
      c_lid == IF s.include_lid /\ V_lid > 0
                 THEN [x |-> 3 * L, y |-> 0, z |-> 6 * H + 3 * s.t_lid]
                 ELSE NoValue
      compsEmpty == comp(V_rect_out, 113 * V_rect_out, c_rect)
                      \o comp(V_hopper_out, 113 * V_hopper_out, c_hopper)
                      \o comp(V_frame_out, 113 * V_frame_out, c_frame)
                      \o (IF s.include_lid
                            THEN comp(V_lid, 2 * V_lid, c_lid) ELSE <<>>)
      cog_empty == weightedCentroid(compsEmpty)
      cog_dust == cogDust(L, H_in, fillFrac(s), V_fill, V_internal)
      cog_filled == cogFilled(cog_empty, cog_dust,
                              100 * m_empty, 113 * m_dust)
  IN [V_internal |-> V_internal,   \* mm^3 / 2
      V_fill |-> V_fill,           \* mm^3 / 200
      V_shell |-> V_shell,         \* mm^3 / 2
      V_lid |-> V_lid,             \* mm^3 / 113
      m_shell |-> m_shell,         \* (mm^3 / 2) kg/m^3
      m_lid |-> m_lid,             \* (mm^3 / 113) kg/m^3
      m_dust |-> m_dust,           \* (mm^3 / 200) kg/m^3
      m_empty |-> m_empty,         \* (mm^3 / 226) kg/m^3
      m_total |-> m_total,         \* (mm^3 / 22600) kg/m^3
      cog_empty |-> cog_empty,     \* component weights in mm^3 / 226
      cog_filled |-> cog_filled]   \* weights in (mm^3 / 22600) kg/m^3

\* Persisted snapshots of small containers: every combination of a short
\* or long, low or high body, thin or thick wall, hopper, frame, lid, hole
\* radius,
\* densities of either sign and fill percentages inside and outside 0..100.
MassSnapshots ==
  { [L_rect |-> l, W |-> 60, H |-> h, t_wall |-> t, x_hopper |-> x,
     include_frame |-> f, H_frame |-> 5, W_pocket |-> 4, H_pocket |-> 2,
     S_pocket |-> 4, include_lid |-> lid, t_lid |-> 1, r_hole |-> r,
     lid_edge_length |-> 5, shell_material |-> "custom", rho_shell |-> rs,
     advanced_lid_material |-> adv, rho_lid |-> rl, rho_dust |-> rd,
     fill_percentage |-> p] :
      l \in {10, 20}, h \in {4, 10}, t \in {2, 5}, x \in {0, 10},
      f \in BOOLEAN,
      lid \in BOOLEAN, r \in {4, 20}, rs \in {-1, 2}, adv \in BOOLEAN,
      rl \in {-1, 1}, rd \in {-1, 0, 2}, p \in {-10, 0, 55, 100, 150} }

InitMass ==
  /\ stored \in {Json(c) : c \in MassSnapshots}
  /\ storageFails = FALSE
  /\ state = loadState(stored)
  /\ lastValidState = deepClone(loadState(stored))
  /\ undoStack = <<>>
  /\ redoStack = <<>>
  /\ pendingFixIgnore = NoValue
  /\ invalidMarks = {}
  /\ outputs = NoValue
  /\ callLog = <<>>
  /\ nOps = 0
  /\ InitScene
  /\ NotLoaded

\* updateOutputs(): the result it publishes
updateOutputs ==
  /\ outputs = NoValue
  /\ outputs' = computeVolumesAndMassesExact(state)
  /\ nOps' = nOps + 1
  /\ Logged(Call("updateOutputs", "done", state, state, {}))
  /\ UNCHANGED <<state, lastValidState, undoStack, redoStack,
                 pendingFixIgnore, invalidMarks, stored, storageFails,
                 sceneVars, overlapLog, earlierVars>>

NextMass == updateOutputs

SpecMass == InitMass /\ [][NextMass]_vars

(***************************************************************************)
(* Collision (container vs imported STLs).  Coordinates are whole          *)
(* millimetres (0.001 scene units), volumes mm^3.  Boxes are the           *)
(* axis-aligned world boxes THREE.Box3().setFromObject() returns.  The     *)
(* container box is that of a container without lid; the imported          *)
(* geometries are blocks centred on their own origin, so that              *)
(* mesh.position is the centre of the box.                                 *)
(***************************************************************************)
Eps == 1000           \* const eps = 1e-6 (m^3)
GridStep == 100       \* mmToM(100) of the snap grid
GroundGap == 10       \* the 0.01 an imported mesh is lifted off the ground

Box3(lo, hi) == [min |-> lo, max |-> hi]

\* Box3.union
union(a, b) ==
  Box3([i \in 1..3 |-> Min(a.min[i], b.min[i])],
       [i \in 1..3 |-> Max(a.max[i], b.max[i])])

\* Box3.isEmpty
isEmpty(b) == \E i \in 1..3 : b.max[i] < b.min[i]

\* Box3.makeEmpty (min = +Infinity, max = -Infinity)
EmptyBox == Box3(<<1, 1, 1>>, <<0, 0, 0>>)

\* Box3.intersectsBox: boxes that only touch do intersect
intersectsBox(a, b) ==
  ~ \E i \in 1..3 : b.max[i] < a.min[i] \/ b.min[i] > a.max[i]

\* Box3.intersect
intersect(a, b) ==
  LET c == Box3([i \in 1..3 |-> Max(a.min[i], b.min[i])],
                [i \in 1..3 |-> Min(a.max[i], b.max[i])])
  IN IF isEmpty(c) THEN EmptyBox ELSE c

\* mutant: extents counted inclusively (max - min + 1)
getSizeInclusive(b) ==
  IF isEmpty(b) THEN <<0, 0, 0>>
  ELSE [i \in 1..3 |-> b.max[i] - b.min[i] + 1]

\* Box3.getSize
getSize(b) ==
  IF isEmpty(b) THEN <<0, 0, 0>> ELSE [i \in 1..3 |-> b.max[i] - b.min[i]]

\* new THREE.Box3().setFromObject(containerGroup) for the group built by
\* createContainerGroup() from configuration s and standing at pos
boxContainer(s, pos) ==
  LET L == s.L_rect
      H == s.H
      W == s.W
      x == s.x_hopper
      Hf == s.H_frame
      rect == Box3(<<0, -(H \div 2), H \div 2 - W \div 2>>,
                   <<L, H \div 2, H \div 2 + W \div 2>>)
      wedge == Box3(<<-x, -(W \div 2), 0>>, <<0, W \div 2, H>>)
      fm == Box3(<<0, -(Hf \div 2), Hf \div 2 - W \div 2>>,
                 <<L, Hf \div 2, Hf \div 2 + W \div 2>>)
      b1 == IF x > 0 THEN union(rect, wedge) ELSE rect
      b2 == IF s.include_frame /\ Hf > 0 THEN union(b1, fm) ELSE b1
  IN Box3(<<b2.min[1] + pos[1], b2.min[2] + pos[2], b2.min[3]>>,
          <<b2.max[1] + pos[1], b2.max[2] + pos[2], b2.max[3]>>)

\* new THREE.Box3().setFromObject(o.mesh)
boxOf(o) ==
  Box3([i \in 1..3 |-> o.position[i] - o.half[i]],
       [i \in 1..3 |-> o.position[i] + o.half[i]])

\* the overlap of the container box a with one imported box b, as the
\* forEach body computes it: its box, and the size the volume is taken of
overlapSize(a, b) ==
  IF intersectsBox(a, b) THEN getSize(intersect(a, b)) ELSE <<0, 0, 0>>

overlapVolume(a, b) ==
  overlapSize(a, b)[1] * overlapSize(a, b)[2] * overlapSize(a, b)[3]

\* the indices whose overlap has size.x > 0 && size.y > 0 && size.z > 0
Overlapping(a, objs) ==
  { i \in 1..Len(objs) :
      /\ intersectsBox(a, boxOf(objs[i]))
      /\ \A k \in 1..3 : getSize(intersect(a, boxOf(objs[i])))[k] > 0 }

\* mutant: the last overlapping object wins
firstIntersectionLast(a, objs) ==
  LET hit == Overlapping(a, objs)
  IN IF hit = {} THEN NoValue
     ELSE intersect(a, boxOf(objs[CHOOSE j \in hit : \A k \in hit : j >= k]))

\* firstIntersection after the forEach
firstIntersection(a, objs) ==
  LET hit == Overlapping(a, objs)
  IN IF hit = {} THEN NoValue
     ELSE intersect(a, boxOf(objs[CHOOSE j \in hit : \A k \in hit : j <= k]))

Abs(n) == IF n >= 0 THEN n ELSE -n

\* One overlap check: the volume it found (0 without intersection), the
\* message it logged, and lastCollisionVolume before and after.
Check(volume, event, before, after) ==
  [volume |-> volume, event |-> event, before |-> before, after |-> after]

Checked(rec) ==
  LET a == Append(overlapLog, rec)
  IN overlapLog' = IF Len(a) > 2 THEN Tail(a) ELSE a

\* mutant: a message for every change of the volume, however small
updateCollisionsNoEps ==
  \E first \in {firstIntersection(boxContainer(state, containerPos),
                                  importedObjects)} :
    IF first # NoValue THEN
      \E volume \in {getSize(first)[1] * getSize(first)[2]
                       * getSize(first)[3]} :
        \E changed \in {Abs(volume - lastCollisionVolume) > 0} :
          /\ collisionMarker' = [visible |-> TRUE, box |-> first]
          /\ lastCollisionVolume' =
               IF changed THEN volume ELSE lastCollisionVolume
          /\ Checked(Check(volume, IF changed THEN "collision" ELSE "none",
                           lastCollisionVolume,
                           IF changed THEN volume ELSE lastCollisionVolume))
    ELSE
      /\ collisionMarker' =
           IF collisionMarker # NoValue
             THEN [collisionMarker EXCEPT !.visible = FALSE]
             ELSE collisionMarker
      /\ lastCollisionVolume' = 0
      /\ Checked(Check(0, IF lastCollisionVolume > 0 THEN "cleared"
                          ELSE "none",
                       lastCollisionVolume, 0))

\* updateCollisions(); the marker's position and scale are the centre and
\* the size of the box kept here
updateCollisions ==
  \E first \in {firstIntersection(boxContainer(state, containerPos),
                                  importedObjects)} :
    IF first # NoValue THEN
      \E volume \in {getSize(first)[1] * getSize(first)[2]
                       * getSize(first)[3]} :
        \E changed \in {Abs(volume - lastCollisionVolume) > Eps} :
          /\ collisionMarker' = [visible |-> TRUE, box |-> first]
          /\ lastCollisionVolume' =
               IF changed THEN volume ELSE lastCollisionVolume
          /\ Checked(Check(volume, IF changed THEN "collision" ELSE "none",
                           lastCollisionVolume,
                           IF changed THEN volume ELSE lastCollisionVolume))
    ELSE
      /\ collisionMarker' =
           IF collisionMarker # NoValue
             THEN [collisionMarker EXCEPT !.visible = FALSE]
             ELSE collisionMarker
      /\ lastCollisionVolume' = 0
      /\ Checked(Check(0, IF lastCollisionVolume > 0 THEN "cleared"
                          ELSE "none",
                       lastCollisionVolume, 0))

\* animate(): one frame
animate ==
  /\ updateCollisions
  /\ UNCHANGED <<importedObjects, containerPos, selectedObject>>

\* Sizes (x, y, z) of the imported geometries.
STLSizes == { <<8, 8, 8>>, <<300, 300, 200>>, <<600, 600, 400>> }

MaxObjects == 2     \* imported objects per behaviour of SpecOverlap
SceneOps == 6       \* handlers and frames run per behaviour of SpecOverlap

\* importSTL(file), reader.onload: the mesh is centred on the origin and
\* stood on the ground
importSTL ==
  \E size \in STLSizes :
    /\ Len(importedObjects) < MaxObjects
    /\ importedObjects' =
         Append(importedObjects,
                [half |-> [i \in 1..3 |-> size[i] \div 2],
                 position |-> <<0, 0, size[3] \div 2 + GroundGap>>])
    /\ UNCHANGED <<containerPos, selectedObject, collisionMarker,
                   lastCollisionVolume, overlapLog>>

\* onPointerDown: the ray hits the container or one of the imported meshes
onPointerDown ==
  \E root \in 0..Len(importedObjects) :
    /\ selectedObject' = root
    /\ UNCHANGED <<importedObjects, containerPos, collisionMarker,
                   lastCollisionVolume, overlapLog>>

\* Math.round(v / gs) * gs
snap(v) == ((2 * v + GridStep) \div (2 * GridStep)) * GridStep

\* the position onKeyDown gives the selected object
moved(pos, key) ==
  LET step == state.move_step_mm
      x == IF key = "a" THEN pos[1] - step
           ELSE IF key = "d" THEN pos[1] + step ELSE pos[1]
      y == IF key = "w" THEN pos[2] + step
           ELSE IF key = "s" THEN pos[2] - step ELSE pos[2]
  IN IF state.snap_to_grid THEN <<snap(x), snap(y)>> ELSE <<x, y>>

Keys == {"w", "a", "s", "d"}

onKeyDown ==
  \E key \in Keys :
    /\ IF selectedObject = 0
         THEN /\ containerPos' = moved(containerPos, key)
              /\ UNCHANGED importedObjects
         ELSE /\ importedObjects' =
                   [importedObjects EXCEPT ![selectedObject].position =
                      <<moved(@, key)[1], moved(@, key)[2], @[3]>>]
              /\ UNCHANGED containerPos
    /\ UNCHANGED <<selectedObject, collisionMarker, lastCollisionVolume,
                   overlapLog>>

\* What localStorage holds when the page of SpecOverlap is opened.
SceneStored == { Absent, Json([move_step_mm |-> 400]) }

InitOverlap ==
  /\ stored \in SceneStored
  /\ storageFails = FALSE
  /\ state = loadState(stored)
  /\ lastValidState = deepClone(loadState(stored))
  /\ undoStack = <<>>
  /\ redoStack = <<>>
  /\ pendingFixIgnore = NoValue
  /\ invalidMarks = {}
  /\ outputs = computeVolumesAndMasses(loadState(stored))
  /\ callLog = <<>>
  /\ nOps = 0
  /\ InitScene
  /\ NotLoaded

TickScene ==
  /\ nOps < SceneOps /\ nOps' = nOps + 1
  /\ UNCHANGED <<state, lastValidState, undoStack, redoStack,
                 pendingFixIgnore, invalidMarks, stored, storageFails,
                 outputs, callLog, earlierVars>>

NextOverlap ==
  \/ TickScene /\ importSTL
  \/ TickScene /\ onPointerDown
  \/ TickScene /\ onKeyDown
  \/ TickScene /\ animate

SpecOverlap == InitOverlap /\ [][NextOverlap]_vars

(***************************************************************************)
(* The earlier commit protocol (part_000, JS_VERSION 1.0.0): validateState, *)
(* commitState, pushUndoState, undo and redo over the same state,           *)
(* lastValidState, undoStack and redoStack, the decision of the error       *)
(* modal held in pendingInvalid.  DEFAULTS and the calculator are those of  *)
(* core-app.js (part_000:14-49, 721-880), and the four fix closures are     *)
(* the positivity, wall, pocket and lid closures of `fix`.  The operators   *)
(* that share a name with core-app.js carry the suffix V1.                  *)
(***************************************************************************)
EarlierOps == 5     \* handlers run per behaviour of SpecEarlier
UndoLimit == 50     \* if (undoStack.length > 50) undoStack.shift()

\* validateState(candidate): the result object; `check` names the branch
validateState(c) ==
  IF c.L_rect <= 0 \/ c.H <= 0 \/ c.W <= 0 \/ c.t_wall <= 0 THEN
    [ok |-> FALSE, check |-> "positive",
     message |-> "All main dimensions (L_rect, H, W, t_wall) must be > 0.",
     fields |-> <<"input-l-rect", "input-h", "input-w", "input-t-wall">>]
  ELSE IF 2 * c.t_wall >= c.W \/ 2 * c.t_wall >= c.L_rect THEN
    [ok |-> FALSE, check |-> "wall",
     message |-> "Wall thickness is too large compared to width/length; inner cavity would collapse.",
     fields |-> <<"input-t-wall">>]
  ELSE IF c.include_frame /\ neededWidth(c) > c.W THEN
    [ok |-> FALSE, check |-> "pockets",
     message |-> "Forklift pockets plus spacing require more width than available. Either reduce pocket size/spacing or increase container width.",
     fields |-> <<"input-w-pocket", "input-s-pocket", "input-w">>]
  ELSE IF c.include_lid /\ c.r_hole > maxR(c) THEN
    [ok |-> FALSE, check |-> "lid",
     message |-> "Lid hole radius too large relative to lid edge; ring thickness would be negative.",
     fields |-> <<"input-r-hole", "input-lid-edge">>]
  ELSE
    [ok |-> TRUE, check |-> "none", message |-> "", fields |-> <<>>]

\* loadStateFromLocalStorage(): the configuration it leaves in `state`
loadStateFromLocalStorage(raw) ==
  IF raw.kind = "json" THEN MergeOverDefaults(raw.obj)
  ELSE deepClone(DEFAULTS)

\* saveStateToLocalStorage(): the value under LOCAL_STORAGE_KEY afterwards
saveStateToLocalStorage(s) ==
  IF storageFails THEN stored ELSE Json(deepClone(s))

\* pushUndoState(): undoStack afterwards, `cur` being `state` at the call
pushUndoState(cur) ==
  LET pushed == Append(undoStack, deepClone(cur))
  IN IF Len(pushed) > UndoLimit THEN Tail(pushed) ELSE pushed

\* commitState(newState, logMsg) of part_000, called by handler `op`
commitStateV1(newState, op) ==
  LET cand == deepClone(newState)
      v == validateState(cand)
  IN IF ~v.ok THEN
       /\ invalidMarks' = markInvalid(v.fields)
       /\ pendingInvalid' = [cand |-> cand, v |-> v]
       /\ UNCHANGED <<state, lastValidState, undoStack, redoStack, stored,
                      outputs>>
       /\ Logged(Call(op, "pending", state, cand, {"openErrorModal"}))
     ELSE
       /\ invalidMarks' = markInvalid(<<>>)
       /\ undoStack' = pushUndoState(state)
       /\ redoStack' = <<>>
       /\ state' = cand
       /\ lastValidState' = deepClone(cand)
       /\ outputs' = computeVolumesAndMasses(cand)
       /\ stored' = saveStateToLocalStorage(cand)
       /\ UNCHANGED pendingInvalid
       /\ Logged(Call(op, "accepted", state, cand, AcceptCalls))

\* the Fix closure handed to openErrorModal, for the pending decision p
onFixV1(p) ==
  LET fixed == fix(p.v.check, p.cand)
  IN /\ invalidMarks' = markInvalid(<<>>)
     /\ state' = fixed
     /\ lastValidState' = deepClone(fixed)
     /\ undoStack' = pushUndoState(fixed)
     /\ UNCHANGED redoStack
     /\ outputs' = computeVolumesAndMasses(fixed)
     /\ stored' = saveStateToLocalStorage(fixed)
     /\ Logged(Call("fix", "fixed", state, p.cand, AcceptCalls))

\* the Ignore closure handed to openErrorModal
onIgnoreV1(p) ==
  /\ state' = deepClone(lastValidState)
  /\ UNCHANGED <<invalidMarks, lastValidState, undoStack, redoStack,
                 outputs, stored>>
  /\ Logged(Call("ignore", "ignored", state, p.cand,
                 {"applyStateToInputs"}))

\* click on btn-error-fix: the pending closure, then closeErrorModal()
FixClickV1 ==
  /\ IF pendingInvalid # NoValue
       THEN onFixV1(pendingInvalid)
       ELSE /\ UNCHANGED <<state, lastValidState, invalidMarks, undoStack,
                           redoStack, outputs, stored>>
            /\ Logged(Call("fix", "noop", state, state, {}))
  /\ pendingInvalid' = NoValue

\* click on btn-error-ignore
IgnoreClickV1 ==
  /\ IF pendingInvalid # NoValue
       THEN onIgnoreV1(pendingInvalid)
       ELSE /\ UNCHANGED <<state, lastValidState, invalidMarks, undoStack,
                           redoStack, outputs, stored>>
            /\ Logged(Call("ignore", "noop", state, state, {}))
  /\ pendingInvalid' = NoValue

undoV1 ==
  /\ IF Len(undoStack) = 0
       THEN /\ UNCHANGED <<state, lastValidState, undoStack, redoStack,
                           outputs, stored>>
            /\ Logged(Call("undo", "noop", state, state, {}))
       ELSE LET prev == Last(undoStack)
            IN /\ undoStack' = Front(undoStack)
               /\ redoStack' = Append(redoStack, deepClone(state))
               /\ state' = prev
               /\ lastValidState' = deepClone(prev)
               /\ outputs' = computeVolumesAndMasses(prev)
               /\ stored' = saveStateToLocalStorage(prev)
               /\ Logged(Call("undo", "done", state, state,
                              AcceptCalls \ {"pushUndo"}))
  /\ UNCHANGED <<pendingInvalid, invalidMarks>>

redoV1 ==
  /\ IF Len(redoStack) = 0
       THEN /\ UNCHANGED <<state, lastValidState, undoStack, redoStack,
                           outputs, stored>>
            /\ Logged(Call("redo", "noop", state, state, {}))
       ELSE LET next == Last(redoStack)
            IN /\ redoStack' = Front(redoStack)
               /\ undoStack' = Append(undoStack, deepClone(state))
               /\ state' = next
               /\ lastValidState' = deepClone(next)
               /\ outputs' = computeVolumesAndMasses(next)
               /\ stored' = saveStateToLocalStorage(next)
               /\ Logged(Call("redo", "done", state, state,
                              AcceptCalls \ {"pushUndo"}))
  /\ UNCHANGED <<pendingInvalid, invalidMarks>>

\* The values typed into the hooked inputs of the earlier page.
EarlierEdits ==
  { <<"t_wall", 650>>, <<"W_pocket", 560>>, <<"W", 0>>,
    <<"humidity", 1>>, <<"humidity", 2>> }

\* hookNumberInput handlers: s = getCurrentState(); s[key] = v;
\* commitState(s, msg)
EditFieldV1 ==
  \E e \in EarlierEdits :
    commitStateV1([deepClone(state) EXCEPT ![e[1]] = e[2]], "edit")

InitEarlier ==
  /\ stored \in {Absent, Corrupt, Json([humidity |-> 50])}
  /\ storageFails \in BOOLEAN
  /\ state = loadStateFromLocalStorage(stored)
  /\ lastValidState = deepClone(loadStateFromLocalStorage(stored))
  /\ undoStack = <<>>
  /\ redoStack = <<>>
  /\ pendingInvalid = NoValue
  /\ invalidMarks = {}
  /\ outputs = computeVolumesAndMasses(loadStateFromLocalStorage(stored))
  /\ callLog = <<>>
  /\ nOps = 0
  /\ pendingFixIgnore = NoValue
  /\ InitScene
  /\ params = NoValue
  /\ historyStack = <<>>
  /\ historyIndex = -1

TickEarlier ==
  /\ nOps < EarlierOps /\ nOps' = nOps + 1
  /\ UNCHANGED <<sceneVars, overlapLog, pendingFixIgnore, storageFails,
                 params, historyStack, historyIndex>>

NextEarlier ==
  \/ TickEarlier /\ EditFieldV1
  \/ TickEarlier /\ FixClickV1
  \/ TickEarlier /\ IgnoreClickV1
  \/ TickEarlier /\ undoV1
  \/ TickEarlier /\ redoV1

SpecEarlier == InitEarlier /\ [][NextEarlier]_vars

(***************************************************************************)
(* The index-based history (part_000, APP_VERSION 3.1.0): params, the      *)
(* snapshots JSON.stringify(params) in historyStack and the position       *)
(* historyIndex of the one shown.  isUndoRedo is true only inside undo()   *)
(* and redo(), whose updateUIFromParams() and rebuildContainer() raise no  *)
(* change event, so pushHistory() always finds it false.  The page starts  *)
(* either at init() or after IndexedDepth changes of the length input.     *)
(***************************************************************************)
IndexedOps == 4       \* handlers run per behaviour of SpecIndexed
IndexedDepth == 19    \* changes of num-L made before SpecIndexed starts
HistoryLimit == 20    \* if (historyStack.length > 20) historyStack.shift()

ParamDEFAULTS ==
  [ L |-> 1400, W |-> 1300, H |-> 900, x_hopper |-> 700, t_wall |-> 5,
    frame_h |-> 100, frame_pocket_w |-> 230, frame_pocket_h |-> 91,
    frame_pocket_s |-> 142, include_frame |-> TRUE,
    include_lid |-> FALSE, t_lid |-> 3, r_hole |-> 150, lid_offset |-> 300,
    advanced_lid_material |-> FALSE,
    rho_shell |-> 7850, rho_dust |-> 1850, rho_lid |-> 7850,
    fill_percent |-> 80,
    move_step |-> 50, snap |-> TRUE, show_collisions |-> TRUE,
    show_cog_e |-> FALSE, show_cog_f |-> TRUE ]

\* Own keys of params in the order JSON.stringify writes them
ParamKeyOrder ==
  << "L", "W", "H", "x_hopper", "t_wall", "frame_h", "frame_pocket_w",
     "frame_pocket_h", "frame_pocket_s", "include_frame", "include_lid",
     "t_lid", "r_hole", "lid_offset", "advanced_lid_material", "rho_shell",
     "rho_dust", "rho_lid", "fill_percent", "move_step", "snap",
     "show_collisions", "show_cog_e", "show_cog_f" >>

\* JSON.stringify(params): the text as its sequence of key: value members
stringifyParams(p) ==
  LET keys == SelectSeq(ParamKeyOrder, LAMBDA k : k \in DOMAIN p)
  IN [i \in 1..Len(keys) |-> <<keys[i], p[keys[i]]>>]

\* loadState(): params = { ...DEFAULTS, ...p }
loadParams(raw) ==
  IF raw.kind = "json"
    THEN [k \in DOMAIN ParamDEFAULTS \cup DOMAIN raw.obj |->
            IF k \in DOMAIN raw.obj THEN raw.obj[k] ELSE ParamDEFAULTS[k]]
    ELSE ParamDEFAULTS

\* pushHistory(): historyStack and historyIndex afterwards
pushHistory(stack, index, p) ==
  LET kept == IF index < Len(stack) - 1
                THEN SubSeq(stack, 1, index + 1) ELSE stack
      pushed == Append(kept, stringifyParams(p))
  IN IF Len(pushed) > HistoryLimit
       THEN [stack |-> Tail(pushed), index |-> index]
       ELSE [stack |-> pushed, index |-> index + 1]

\* the configuration after i changes of num-L
ParamConfig(i) == [ParamDEFAULTS EXCEPT !.L = 1400 + 100 * (i % 3)]

RECURSIVE PushedUpTo(_)
PushedUpTo(n) ==
  IF n = 0 THEN pushHistory(<<>>, -1, ParamConfig(0))
  ELSE LET h == PushedUpTo(n - 1)
       IN pushHistory(h.stack, h.index, ParamConfig(n))

ParamLog(n) ==
  LET from == Max(1, n - LogLen + 1)
  IN [j \in 1..(n - from + 1) |->
        Call("number", "pushed", ParamConfig(from + j - 2),
             ParamConfig(from + j - 1), {"pushHistory"})]

\* init(): loadState() and the first pushHistory()
InitIndexed ==
  /\ storageFails = FALSE
  /\ state = deepClone(DEFAULTS)
  /\ lastValidState = deepClone(DEFAULTS)
  /\ undoStack = <<>>
  /\ redoStack = <<>>
  /\ pendingFixIgnore = NoValue
  /\ pendingInvalid = NoValue
  /\ invalidMarks = {}
  /\ outputs = NoValue
  /\ nOps = 0
  /\ InitScene
  /\ \/ /\ stored \in {Absent, Corrupt, Json([fill_percent |-> 50])}
        /\ params = loadParams(stored)
        /\ historyStack = pushHistory(<<>>, -1, loadParams(stored)).stack
        /\ historyIndex = pushHistory(<<>>, -1, loadParams(stored)).index
        /\ callLog = <<>>
     \/ /\ stored = Absent
        /\ params = ParamConfig(IndexedDepth)
        /\ historyStack = PushedUpTo(IndexedDepth).stack
        /\ historyIndex = PushedUpTo(IndexedDepth).index
        /\ callLog = ParamLog(IndexedDepth)

TickIndexed ==
  /\ nOps < IndexedOps /\ nOps' = nOps + 1
  /\ UNCHANGED <<state, lastValidState, undoStack, redoStack,
                 pendingFixIgnore, pendingInvalid, invalidMarks, stored,
                 storageFails, outputs, sceneVars, overlapLog>>

\* bind(): "change" on the number input: update(n.value); pushHistory()
NumberChange ==
  \E v \in {1500, 1600} :
    \E p \in {[params EXCEPT !.L = v]} :
      \E h \in {pushHistory(historyStack, historyIndex, p)} :
        /\ params' = p
        /\ historyStack' = h.stack
        /\ historyIndex' = h.index
        /\ Logged(Call("number", "pushed", params, p, {"pushHistory"}))

\* bind(): "input" on the range input: update(r.value)
RangeInput ==
  \E v \in {1000} :
    /\ params' = [params EXCEPT !.W = v]
    /\ UNCHANGED <<historyStack, historyIndex>>
    /\ Logged(Call("range-input", "set", params, params', {}))

\* bind(): "change" on the range input: pushHistory
RangeChange ==
  \E h \in {pushHistory(historyStack, historyIndex, params)} :
    /\ historyStack' = h.stack
    /\ historyIndex' = h.index
    /\ UNCHANGED params
    /\ Logged(Call("range-change", "pushed", params, params,
                   {"pushHistory"}))

\* chk-snap "change" handler: params.snap = e.target.checked
SnapChange ==
  /\ params' = [params EXCEPT !.snap = ~params.snap]
  /\ UNCHANGED <<historyStack, historyIndex>>
  /\ Logged(Call("snap", "set", params, params', {}))

\* undo() of the index-based history
undoIndexed ==
  IF historyIndex > 0
    THEN /\ historyIndex' = historyIndex - 1
         /\ params' = JSONparse(historyStack[historyIndex - 1 + 1])
         /\ UNCHANGED historyStack
         /\ Logged(Call("undo", "done", params, params',
                        {"updateUIFromParams", "rebuildContainer"}))
    ELSE /\ UNCHANGED <<params, historyStack, historyIndex>>
         /\ Logged(Call("undo", "noop", params, params, {}))

\* redo() of the index-based history
redoIndexed ==
  IF historyIndex < Len(historyStack) - 1
    THEN /\ historyIndex' = historyIndex + 1
         /\ params' = JSONparse(historyStack[historyIndex + 1 + 1])
         /\ UNCHANGED historyStack
         /\ Logged(Call("redo", "done", params, params',
                        {"updateUIFromParams", "rebuildContainer"}))
    ELSE /\ UNCHANGED <<params, historyStack, historyIndex>>
         /\ Logged(Call("redo", "noop", params, params, {}))

NextIndexed ==
  \/ TickIndexed /\ NumberChange
  \/ TickIndexed /\ RangeInput
  \/ TickIndexed /\ RangeChange
  \/ TickIndexed /\ SnapChange
  \/ TickIndexed /\ undoIndexed
  \/ TickIndexed /\ redoIndexed

SpecIndexed == InitIndexed /\ [][NextIndexed]_vars

(***************************************************************************)
(* The configuration invariants of the data model, stated on their own     *)
(***************************************************************************)
InvPositive(c) == c.L_rect > 0 /\ c.H > 0 /\ c.W > 0 /\ c.t_wall > 0
InvWall(c) == 2 * c.t_wall < Min(c.L_rect, c.W)
InvHopper(c) == 0 <= c.x_hopper /\ c.x_hopper <= c.L_rect
InvFrame(c) == c.include_frame => c.H_frame < c.H
InvPockets(c) ==
  c.include_frame => 2 * c.W_pocket + c.S_pocket + 40 <= c.W
InvLid(c) ==
  c.include_lid =>
    2 * c.r_hole <= Max(40, Min(c.W - 2 * c.lid_edge_length,
                                c.L_rect - 2 * c.lid_edge_length))

AllInvariants(c) ==
  /\ InvPositive(c) /\ InvWall(c) /\ InvHopper(c)
  /\ InvFrame(c) /\ InvPockets(c) /\ InvLid(c)

\* the checks a configuration violates, by their place in the fixed order
Violated(c) ==
  {i \in 1..6 :
     \/ i = 1 /\ ~InvPositive(c)
     \/ i = 2 /\ ~InvWall(c)
     \/ i = 3 /\ ~InvHopper(c)
     \/ i = 4 /\ ~InvFrame(c)
     \/ i = 5 /\ ~InvPockets(c)
     \/ i = 6 /\ ~InvLid(c)}

FirstViolated(c) == CHOOSE i \in Violated(c) : \A j \in Violated(c) : i <= j

CheckOrder == <<"positive", "wall", "hopper", "frame", "pockets", "lid">>

\* the inputs each check flags, and its message
CheckInputs ==
  << {"input-l-rect", "input-h", "input-w", "input-t-wall"},
     {"input-t-wall"},
     {"input-x-hopper", "input-l-rect"},
     {"input-h-frame", "input-h"},
     {"input-w-pocket", "input-s-pocket", "input-w"},
     {"input-r-hole", "input-lid-edge"} >>
CheckMessage ==
  << "All main dimensions (L_rect, H, W, t_wall) must be > 0.",
     "Wall thickness too large relative to width/length - inner cavity would collapse.",
     "x_hopper must be between 0 and L_rect (wedge cannot be longer than the rectangular part).",
     "Frame height H_frame should be smaller than container height H.",
     "Forklift pockets + spacing need more width than available. Reduce pocket width/spacing or increase container width.",
     "Lid hole radius too large; ring edge would become negative." >>

\* the fields the six checks read
ValidatedFields ==
  {"L_rect", "H", "W", "t_wall", "x_hopper", "include_frame", "H_frame",
   "W_pocket", "S_pocket", "include_lid", "r_hole", "lid_edge_length"}
BoolFields ==
  {"include_frame", "unlock_pockets", "include_lid", "advanced_lid_material",
   "snap_to_grid", "show_reference_cube", "show_cog_empty",
   "show_cog_filled", "export_lid_with_container"}

\* a configuration that differs from c in field k alone
Perturb(c, k) ==
  IF k \in BoolFields THEN [c EXCEPT ![k] = ~c[k]]
  ELSE IF k = "shell_material"
    THEN [c EXCEPT ![k] = IF c[k] = "custom" THEN "steel" ELSE "custom"]
  ELSE [c EXCEPT ![k] = c[k] + 1]

\* the k-th newest handler run (0 = the one that just ended)
Rec(k) == callLog[Len(callLog) - k]
Committing(r) == r.outcome \in {"accepted", "pending"}

(***************************************************************************)
(* C1: a commitState call whose candidate C passes validation, made while  *)
(* the configuration is P, followed by undo() leaves the current           *)
(* configuration equal to P; a redo() after that leaves it equal to C.     *)
(***************************************************************************)
C1_CommitUndoRedo ==
  /\ (Len(callLog) >= 2 /\ Rec(1).outcome = "accepted" /\ Rec(0).op = "undo")
       => state = Rec(1).P
  /\ (Len(callLog) >= 3 /\ Rec(2).outcome = "accepted" /\ Rec(1).op = "undo"
        /\ Rec(0).op = "redo")
       => state = Rec(2).C

C1_Witness ==
  /\ Len(callLog) >= 3
  /\ Rec(2).outcome = "accepted" /\ Rec(2).P # Rec(2).C
  /\ Rec(1).op = "undo" /\ Rec(1).outcome = "done"
  /\ Rec(0).op = "redo" /\ Rec(0).outcome = "done"
  /\ state = Rec(2).C

(***************************************************************************)
(* C2: after an invalid commit made while the configuration is P and       *)
(* resolved with Fix, an immediate undo() restores P (the entry pushed by  *)
(* Fix is the pre-commit configuration, not the fixed candidate).          *)
(***************************************************************************)
C2_FixThenUndoRestoresPreCommit ==
  (Len(callLog) >= 3 /\ Rec(2).outcome = "pending" /\ Rec(1).outcome = "fixed"
     /\ Rec(0).op = "undo")
    => state = Rec(2).P

(***************************************************************************)
(* C3: every successful commit (accepted directly, or resolved with Fix)   *)
(* leaves the redo stack empty; an effective undo leaves the redo stack    *)
(* one longer than before.                                                 *)
(***************************************************************************)
C3_RedoCleared ==
  [][ /\ Last(callLog').outcome \in {"accepted", "fixed"}
         => redoStack' = <<>>
      /\ (Last(callLog').op = "undo" /\ Last(callLog').outcome = "done")
         => Len(redoStack') = Len(redoStack) + 1 ]_vars

C3_Witness ==
  /\ Len(callLog) >= 2
  /\ Rec(1).op = "undo" /\ Rec(1).outcome = "done"
  /\ Rec(0).outcome = "fixed"
  /\ redoStack = <<>>

(***************************************************************************)
(* C4: the undo stack and the redo stack never hold more than 50 entries;  *)
(* a push onto an undo stack of 50 entries evicts the oldest entry and     *)
(* keeps the other 49 in order.                                            *)
(***************************************************************************)
C4_HistoryBounded ==
  /\ Len(undoStack) <= 50 /\ Len(redoStack) <= 50
  /\ [][ /\ Len(undoStack') <= 50 /\ Len(redoStack') <= 50
         /\ (Len(undoStack) = 50
               /\ Last(callLog').outcome \in {"accepted", "fixed"})
            => /\ Len(undoStack') = 50
               /\ Front(undoStack') = Tail(undoStack) ]_vars

C4_Witness ==
  /\ Len(undoStack) = 50
  /\ Len(callLog) >= 2
  /\ Rec(0).outcome = "accepted" /\ Rec(1).outcome = "accepted"
  /\ undoStack[1] = HistConfig(1)
  /\ undoStack[50] = Rec(0).P

(***************************************************************************)
(* C5: whenever validateCandidate rejects a candidate, applying the        *)
(* returned fix and validating again returns Valid.                        *)
(***************************************************************************)
C5_FixYieldsValid ==
  (Len(callLog) >= 1 /\ Rec(0).outcome = "fixed")
    => validateCandidate(state).ok

(***************************************************************************)
(* C6: validateCandidate accepts a candidate exactly when it satisfies all *)
(* the configuration invariants, and no field outside the ones the         *)
(* invariants name changes its result.                                     *)
(***************************************************************************)
C6_ValidIffInvariants ==
  (Len(callLog) >= 1 /\ Committing(Rec(0)))
    => /\ (Rec(0).outcome = "accepted") <=> AllInvariants(Rec(0).C)
       /\ validateCandidate(Rec(0).C).ok <=> AllInvariants(Rec(0).C)
       /\ \A k \in Fields \ ValidatedFields :
            validateCandidate(Perturb(Rec(0).C, k))
              = validateCandidate(Rec(0).C)

C6_Witness ==
  /\ Len(callLog) >= 1
  /\ Rec(0).outcome = "pending"
  /\ Violated(Rec(0).C) = {6}

(***************************************************************************)
(* C7: a rejected candidate gets exactly one diagnostic, that of the first *)
(* violated check in the order positivity, wall thickness, hopper length,  *)
(* frame height, pocket budget, lid hole; message, remedy and field set    *)
(* are those of that check.                                                *)
(***************************************************************************)
C7_FirstViolatedReported ==
  (Len(callLog) >= 1 /\ Rec(0).outcome = "pending")
    => /\ pendingFixIgnore # NoValue
       /\ pendingFixIgnore.candidate = Rec(0).C
       /\ pendingFixIgnore.v.check = CheckOrder[FirstViolated(Rec(0).C)]
       /\ markInvalid(pendingFixIgnore.v.fields)
            = CheckInputs[FirstViolated(Rec(0).C)]
       /\ invalidMarks = CheckInputs[FirstViolated(Rec(0).C)]
       /\ pendingFixIgnore.v.message
            = CheckMessage[FirstViolated(Rec(0).C)]

C7_Witness ==
  /\ Len(callLog) >= 1
  /\ Rec(0).outcome = "pending"
  /\ Cardinality(Violated(Rec(0).C)) >= 2
  /\ FirstViolated(Rec(0).C) >= 4

(***************************************************************************)
(* C8: a commitState call whose candidate fails validation leaves the      *)
(* current and last-valid configuration, both stacks and the persisted     *)
(* snapshot as they were at the call, registering only the pending         *)
(* decision and the marked fields; and they stay as they were for as long  *)
(* as the decision is pending (until Fix or Ignore is clicked).            *)
(***************************************************************************)
C8_InvalidCommitHoldsState ==
  [][ /\ Last(callLog').outcome = "pending"
         => /\ state' = Last(callLog').P
            /\ UNCHANGED <<lastValidState, undoStack, redoStack, stored>>
            /\ pendingFixIgnore' # NoValue
            /\ invalidMarks' = markInvalid(pendingFixIgnore'.v.fields)
      /\ (pendingFixIgnore # NoValue
            /\ Last(callLog').op \notin {"fix", "ignore"})
         => UNCHANGED <<state, lastValidState, undoStack, redoStack,
                        stored>> ]_vars

(***************************************************************************)
(* C9: Ignore discards the candidate: afterwards the current configuration *)
(* equals the last-known-valid one, both stacks and the persisted          *)
(* snapshot are unchanged and the mass-properties are not recomputed.      *)
(***************************************************************************)
C9_IgnoreDiscards ==
  [][ Last(callLog').outcome = "ignored"
        => /\ state' = lastValidState
           /\ UNCHANGED <<lastValidState, undoStack, redoStack, stored,
                          outputs>>
           /\ Last(callLog').calls
                \cap {"pushUndo", "updateOutputs", "saveState"} = {}
           /\ pendingFixIgnore' = NoValue ]_vars

C9_Witness ==
  /\ Len(callLog) >= 2
  /\ Rec(1).outcome = "pending"
  /\ Rec(0).outcome = "ignored"
  /\ Rec(0).P # state
  /\ state = lastValidState

(***************************************************************************)
(* C10: a registered Fix/Ignore decision stays pending until Fix or Ignore *)
(* is clicked; a commitState call made meanwhile, valid or invalid, does   *)
(* not replace or discard it.                                              *)
(***************************************************************************)
C10_PendingDecisionKept ==
  [][ (pendingFixIgnore # NoValue
         /\ Last(callLog').op \notin {"fix", "ignore"})
        => pendingFixIgnore' = pendingFixIgnore ]_vars


(***************************************************************************)
(* C11: the current configuration changes only through the commit protocol *)
(* (a commit that is accepted, or a decision resolved with Fix or Ignore)  *)
(* or through an effective undo or redo; no other handler run changes it.  *)
(***************************************************************************)
C11_StateChangesOnlyByProtocol ==
  [][ state' # state =>
        \/ Last(callLog').outcome \in {"accepted", "fixed", "ignored"}
        \/ /\ Last(callLog').op \in {"undo", "redo"}
           /\ Last(callLog').outcome = "done" ]_vars


(***************************************************************************)
(* C12: an import whose text fails to parse leaves the current             *)
(* configuration (so also its length L_rect), the last-valid              *)
(* configuration, the undo stack and the redo stack as they were, merges   *)
(* nothing, and reports the failure (alert).                               *)
(***************************************************************************)
C12_MalformedImportRejected ==
  [][ (Last(callLog').op = "import" /\ Last(callLog').outcome = "rejected")
        => /\ state' = state /\ state'.L_rect = state.L_rect
           /\ lastValidState' = lastValidState
           /\ undoStack' = undoStack /\ redoStack' = redoStack
           /\ pendingFixIgnore' = pendingFixIgnore
           /\ stored' = stored /\ outputs' = outputs
           /\ "alert" \in Last(callLog').calls ]_vars

C12_Witness ==
  /\ Len(callLog) >= 2
  /\ Rec(1).op = "import" /\ Rec(1).outcome = "accepted"
  /\ Rec(0).op = "import" /\ Rec(0).outcome = "rejected"
  /\ state = Rec(1).C /\ state # DEFAULTS
  /\ Len(undoStack) = 1


(***************************************************************************)
(* C13: a persistence failure does not stop the engine.  When the          *)
(* persisted snapshot cannot be read or parsed at startup, the current and *)
(* the last-valid configuration are both the defaults.  When the write     *)
(* fails during a commit, a Fix, an undo or a redo, the configuration, the *)
(* last-valid configuration and both stacks end as that operation leaves   *)
(* them when the write succeeds.                                           *)
(***************************************************************************)
C13_PersistenceFailureTolerated ==
  /\ stored.kind = "corrupt"
       => state = DEFAULTS /\ lastValidState = DEFAULTS
  /\ [][ storageFails =>
           LET r == Last(callLog')
           IN /\ r.outcome = "accepted"
                   => /\ state' = r.C /\ lastValidState' = r.C
                      /\ undoStack' = pushUndo(r.P).undo
                      /\ redoStack' = <<>>
              /\ r.outcome = "fixed"
                   => /\ state' = fix(pendingFixIgnore.v.check, r.C)
                      /\ lastValidState' = state'
                      /\ undoStack' = pushUndo(state').undo
                      /\ redoStack' = <<>>
              /\ (r.op = "undo" /\ r.outcome = "done")
                   => /\ state' = Last(undoStack)
                      /\ lastValidState' = state'
                      /\ undoStack' = Front(undoStack)
                      /\ redoStack' = Append(redoStack, state)
              /\ (r.op = "redo" /\ r.outcome = "done")
                   => /\ state' = Last(redoStack)
                      /\ lastValidState' = state'
                      /\ redoStack' = Front(redoStack)
                      /\ undoStack' = Append(undoStack, state)
              /\ (r.op = "undo" => (r.outcome = "done" <=> undoStack # <<>>))
              /\ (r.op = "redo" => (r.outcome = "done" <=> redoStack # <<>>))
              /\ (r.op = "fix"
                    => (r.outcome = "fixed" <=> pendingFixIgnore # NoValue))
              /\ (r.op = "import" /\ Committing(r))
                    => (r.outcome = "accepted"
                          <=> validateCandidate(r.C).ok) ]_vars

C13_Witness ==
  /\ storageFails /\ stored = Corrupt
  /\ Len(callLog) >= 3
  /\ Rec(2).outcome = "accepted" /\ Rec(2).P # Rec(2).C
  /\ Rec(1).op = "undo" /\ Rec(1).outcome = "done"
  /\ Rec(0).op = "redo" /\ Rec(0).outcome = "done"
  /\ state = Rec(2).C /\ Len(undoStack) = 1


(***************************************************************************)
(* C14: a configuration rebuilt from the persisted snapshot or from        *)
(* imported text is the parsed fields merged over the defaults: it has     *)
(* every field of DEFAULTS, each field present in the parsed data has the  *)
(* parsed value and each field absent from it has the default value.       *)
(***************************************************************************)
MergedFrom(c, parsed) ==
  /\ Fields \subseteq DOMAIN c
  /\ \A k \in DOMAIN parsed : c[k] = parsed[k]
  /\ \A k \in Fields \ DOMAIN parsed : c[k] = DEFAULTS[k]

C14_MergeOverDefaults ==
  /\ (nOps = 0 /\ stored.kind = "json")
       => MergedFrom(state, stored.obj) /\ lastValidState = state
  /\ (Len(callLog) >= 1 /\ Rec(0).op = "import" /\ Committing(Rec(0)))
       => \E text \in IOTexts :
            text.kind = "json" /\ MergedFrom(Rec(0).C, text.obj)

C14_Witness ==
  /\ Len(callLog) >= 1
  /\ Rec(0).op = "import" /\ Rec(0).outcome = "accepted"
  /\ Rec(0).P.humidity = 50 /\ Rec(0).P.W_pocket = 700
  /\ state.t_wall = 400 /\ state.humidity = 0 /\ state.W_pocket = 230


(***************************************************************************)
(* C16 as stated: the configuration with t_wall = 400, W = 1300,           *)
(* L_rect = 1400 and the other fields at their defaults is rejected for    *)
(* its wall thickness, with the remedy t_wall = 325.                       *)
(***************************************************************************)
WallExample(t) == [deepClone(DEFAULTS) EXCEPT !.t_wall = t]

C16_Wall400Rejected ==
  (Len(callLog) >= 1 /\ Committing(Rec(0)) /\ Rec(0).C = WallExample(400))
    => /\ Rec(0).outcome = "pending"
       /\ pendingFixIgnore # NoValue
       /\ pendingFixIgnore.v.check = "wall"
       /\ fix("wall", Rec(0).C).t_wall = 325

(***************************************************************************)
(* C16 amended: with W = 1300 and L_rect = 1400, t_wall = 400 is accepted  *)
(* (2 * 400 < 1300); t_wall = 650 (2 * t_wall >= W) is rejected citing the *)
(* wall thickness, and the remedy sets t_wall to floor(min(W, L) / 4) =    *)
(* 325 and changes nothing else.                                           *)
(***************************************************************************)
C16_WallExample ==
  /\ (Len(callLog) >= 1 /\ Committing(Rec(0))
        /\ Rec(0).C = WallExample(400))
       => /\ Rec(0).outcome = "accepted"
          /\ validateCandidate(Rec(0).C).ok
  /\ (Len(callLog) >= 1 /\ Committing(Rec(0))
        /\ Rec(0).C = WallExample(650))
       => /\ Rec(0).outcome = "pending"
          /\ pendingFixIgnore # NoValue
          /\ pendingFixIgnore.candidate = Rec(0).C
          /\ pendingFixIgnore.v.check = "wall"
          /\ pendingFixIgnore.v.message = CheckMessage[2]
          /\ fix(pendingFixIgnore.v.check, Rec(0).C) = WallExample(325)
  /\ (Len(callLog) >= 2 /\ Rec(1).outcome = "pending"
        /\ Rec(1).C = WallExample(650) /\ Rec(0).outcome = "fixed")
       => state = WallExample(325)

C16_Witness ==
  /\ Len(callLog) >= 3
  /\ Rec(2).outcome = "accepted" /\ Rec(2).C = WallExample(400)
  /\ Rec(1).outcome = "pending" /\ Rec(1).C = WallExample(650)
  /\ Rec(0).outcome = "fixed"
  /\ state.t_wall = 325

(***************************************************************************)
(* C17: a candidate with a lid whose hole radius exceeds                   *)
(* maxR = max(20, min(W/2 - lid_edge_length, L/2 - lid_edge_length)), and  *)
(* which passes the checks before the lid check, is rejected for the lid   *)
(* hole; the remedy sets r_hole to exactly maxR and the lid check then     *)
(* passes.  For include_lid, lid_edge_length = 700, r_hole = 900,          *)
(* W = 1300, L_rect = 1400 the candidate is rejected and the remedy gives  *)
(* r_hole = 20.                                                            *)
(***************************************************************************)
MaxRadius(c) ==
  Max(20, Min(c.W \div 2 - c.lid_edge_length,
              c.L_rect \div 2 - c.lid_edge_length))

LidExample ==
  [deepClone(DEFAULTS) EXCEPT !.include_lid = TRUE,
                              !.lid_edge_length = 700, !.r_hole = 900]

C17_LidRemedy ==
  /\ (Len(callLog) >= 1 /\ Committing(Rec(0))
        /\ Rec(0).C.include_lid /\ Rec(0).C.r_hole > MaxRadius(Rec(0).C)
        /\ InvPositive(Rec(0).C) /\ InvWall(Rec(0).C) /\ InvHopper(Rec(0).C)
        /\ InvFrame(Rec(0).C) /\ InvPockets(Rec(0).C))
       => /\ Rec(0).outcome = "pending"
          /\ pendingFixIgnore # NoValue
          /\ pendingFixIgnore.v.check = "lid"
          /\ fix(pendingFixIgnore.v.check, Rec(0).C)
               = [Rec(0).C EXCEPT !.r_hole = MaxRadius(Rec(0).C)]
          /\ InvLid(fix(pendingFixIgnore.v.check, Rec(0).C))
          /\ validateCandidate(fix(pendingFixIgnore.v.check, Rec(0).C)).ok
  /\ (Len(callLog) >= 1 /\ Committing(Rec(0)) /\ Rec(0).C = LidExample)
       => /\ Rec(0).outcome = "pending"
          /\ fix(pendingFixIgnore.v.check, Rec(0).C).r_hole = 20
  /\ (Len(callLog) >= 2 /\ Rec(1).outcome = "pending"
        /\ Rec(1).C = LidExample /\ Rec(0).outcome = "fixed")
       => state = [LidExample EXCEPT !.r_hole = 20]

C17_Witness ==
  /\ Len(callLog) >= 2
  /\ Rec(1).outcome = "pending" /\ Rec(1).C = LidExample
  /\ Rec(0).outcome = "fixed"
  /\ state.r_hole = 20 /\ state.include_lid
  /\ validateCandidate(state).ok


(***************************************************************************)
(* C18: undo() on an empty undo stack and redo() on an empty redo stack    *)
(* change nothing: the configuration, the last-valid configuration, both   *)
(* stacks and the persisted snapshot stay as they were.  Otherwise undo()  *)
(* makes the top of the undo stack current, removes it from that stack and *)
(* pushes the previously current configuration onto the redo stack;        *)
(* redo() does the same with the two stacks exchanged.                     *)
(***************************************************************************)
C18_UndoRedoFrame ==
  [][ /\ (Last(callLog').op = "undo" /\ undoStack = <<>>)
           => UNCHANGED <<state, lastValidState, undoStack, redoStack,
                          stored>>
      /\ (Last(callLog').op = "redo" /\ redoStack = <<>>)
           => UNCHANGED <<state, lastValidState, undoStack, redoStack,
                          stored>>
      /\ (Last(callLog').op = "undo" /\ undoStack # <<>>)
           => /\ state' = undoStack[Len(undoStack)]
              /\ undoStack' = SubSeq(undoStack, 1, Len(undoStack) - 1)
              /\ redoStack' = redoStack \o <<state>>
      /\ (Last(callLog').op = "redo" /\ redoStack # <<>>)
           => /\ state' = redoStack[Len(redoStack)]
              /\ redoStack' = SubSeq(redoStack, 1, Len(redoStack) - 1)
              /\ undoStack' = undoStack \o <<state>> ]_vars

C18_Witness ==
  /\ Len(callLog) >= 3
  /\ Rec(2).op = "undo" /\ Rec(2).outcome = "done"
  /\ Rec(1).op = "redo" /\ Rec(1).outcome = "done"
  /\ Rec(0).op = "redo" /\ Rec(0).outcome = "noop"
  /\ redoStack = <<>> /\ Len(undoStack) = HistDepth
  /\ state = HistConfig(HistDepth)


(***************************************************************************)
(* C15: for every configuration that validateCandidate accepts, the        *)
(* published V_internal, V_fill, m_shell, m_lid, m_dust and m_total are    *)
(* all >= 0 (with or without hopper, frame and lid, at any fill            *)
(* percentage).                                                            *)
(***************************************************************************)
C15_MassPropertiesNonNegative ==
  (outputs # NoValue /\ validateCandidate(state).ok)
    => /\ outputs.V_internal >= 0 /\ outputs.V_fill >= 0
       /\ outputs.m_shell >= 0 /\ outputs.m_lid >= 0
       /\ outputs.m_dust >= 0 /\ outputs.m_total >= 0


(***************************************************************************)
(* C19 as stated: at every overlap check a message is logged exactly when  *)
(* the volume found differs from the volume found at the previous check    *)
(* (0 before the first check), and the message is "Collision cleared."     *)
(* exactly when the volume returned to zero from a non-zero value.         *)
(***************************************************************************)
PrevVolume ==
  IF Len(overlapLog) >= 2 THEN overlapLog[Len(overlapLog) - 1].volume ELSE 0

C19_EventIffVolumeChanged ==
  Len(overlapLog) >= 1 =>
    /\ Last(overlapLog).event # "none"
         <=> Last(overlapLog).volume # PrevVolume
    /\ Last(overlapLog).event = "cleared"
         <=> (Last(overlapLog).volume = 0 /\ PrevVolume > 0)

(***************************************************************************)
(* C19 amended: a collision message is logged at a check exactly when an   *)
(* overlap of positive volume is found whose volume differs by more than   *)
(* 1e-6 m^3 from the volume last notified (0 initially and after a clear); *)
(* "Collision cleared." is logged exactly when no overlap is found and the *)
(* volume last notified is non-zero.  The volume last notified changes     *)
(* only with a message.  Hence no message is logged while the volume is    *)
(* the same as at the previous check, and every message is logged at a     *)
(* check whose volume differs from the previous one.                       *)
(***************************************************************************)
C19_EventOnNotifiedChange ==
  Len(overlapLog) >= 1 =>
    /\ Last(overlapLog).event = "collision"
         <=> /\ Last(overlapLog).volume > 0
             /\ \/ Last(overlapLog).volume - Last(overlapLog).before > 1000
                \/ Last(overlapLog).before - Last(overlapLog).volume > 1000
    /\ Last(overlapLog).event = "cleared"
         <=> (Last(overlapLog).volume = 0 /\ Last(overlapLog).before > 0)
    /\ Last(overlapLog).event \in {"collision", "cleared", "none"}
    /\ Last(overlapLog).after =
         IF Last(overlapLog).event = "none"
           THEN Last(overlapLog).before ELSE Last(overlapLog).volume
    /\ lastCollisionVolume = Last(overlapLog).after
    /\ Len(overlapLog) >= 2
         => Last(overlapLog).before
              = overlapLog[Len(overlapLog) - 1].after
    /\ Last(overlapLog).volume = PrevVolume
         => Last(overlapLog).event = "none"

C19_Witness ==
  /\ Len(overlapLog) = 2
  /\ overlapLog[1].event = "none" /\ overlapLog[1].volume > 1000
  /\ overlapLog[1].before = overlapLog[1].volume
  /\ overlapLog[2].event = "cleared"
  /\ lastCollisionVolume = 0
  /\ collisionMarker # NoValue /\ ~collisionMarker.visible


(***************************************************************************)
(* C20: for the container box and every imported box the overlap volume    *)
(* computed is never negative; it is positive exactly when the extents of  *)
(* the two boxes overlap with positive length on all three axes (and then  *)
(* it is the product of the three lengths), zero exactly when they fail to *)
(* do so on at least one axis.  The volume an overlap check reports is     *)
(* positive exactly when some imported box overlaps the container box in   *)
(* that way.                                                               *)
(***************************************************************************)
OverlapLength(a, b, k) == Min(a.max[k], b.max[k]) - Max(a.min[k], b.min[k])

PositiveOverlap(a, b) == \A k \in 1..3 : OverlapLength(a, b, k) > 0

C20_OverlapVolumeSign ==
  /\ [](\A a \in {boxContainer(state, containerPos)} :
          \A i \in 1..Len(importedObjects) :
            \A b \in {boxOf(importedObjects[i])} :
              \A v \in {overlapVolume(a, b)} :
                /\ v >= 0
                /\ v > 0 <=> PositiveOverlap(a, b)
                /\ v = 0 <=> \E k \in 1..3 : OverlapLength(a, b, k) <= 0
                /\ v > 0 => v = OverlapLength(a, b, 1)
                                  * OverlapLength(a, b, 2)
                                  * OverlapLength(a, b, 3))
  /\ [][ overlapLog' # overlapLog =>
           /\ Last(overlapLog').volume >= 0
           /\ Last(overlapLog').volume > 0
                <=> \E i \in 1..Len(importedObjects) :
                      PositiveOverlap(boxContainer(state, containerPos),
                                      boxOf(importedObjects[i])) ]_vars

C20_Witness ==
  /\ Len(importedObjects) = 2
  /\ \E i, j \in 1..2 :
       /\ intersectsBox(boxContainer(state, containerPos),
                        boxOf(importedObjects[i]))
       /\ overlapVolume(boxContainer(state, containerPos),
                        boxOf(importedObjects[i])) = 0
       /\ overlapVolume(boxContainer(state, containerPos),
                        boxOf(importedObjects[j])) > 0
  /\ Len(overlapLog) >= 1 /\ Last(overlapLog).volume > 0
  /\ collisionMarker # NoValue /\ collisionMarker.visible


(***************************************************************************)
(* C21: in every reachable state the last-known-valid configuration passes *)
(* validateCandidate, and so does the current configuration whenever no    *)
(* Fix/Ignore decision is pending.                                         *)
(***************************************************************************)
C21_TrackedConfigurationsValid ==
  /\ validateCandidate(lastValidState).ok
  /\ pendingFixIgnore = NoValue => validateCandidate(state).ok


(***************************************************************************)
(* C22: while a Fix/Ignore decision is pending no commit, undo, redo or    *)
(* reset takes effect: a handler run other than Fix or Ignore leaves the   *)
(* current and last-valid configuration and both stacks as they were, so   *)
(* Fix and Ignore find the configuration of the invalid commit.            *)
(***************************************************************************)
C22_NoTransitionWhilePending ==
  [][ (pendingFixIgnore # NoValue
         /\ Last(callLog').op \in {"edit", "fill", "shell", "import",
                                   "reset", "undo", "redo"})
        => /\ UNCHANGED <<state, lastValidState, undoStack, redoStack>>
           /\ Last(callLog').outcome \notin {"accepted", "done"} ]_vars


(***************************************************************************)
(* C23: a pending decision is cleared only by a click on Fix or on Ignore; *)
(* the click runs the one closure of its button (Fix: the remedied         *)
(* candidate becomes current; Ignore: the last-valid configuration does),  *)
(* and clears the decision; a click on either button while no decision is  *)
(* pending changes nothing.                                                *)
(***************************************************************************)
C23_DecisionResolvedOnce ==
  [][ LET r == Last(callLog')
      IN /\ (pendingFixIgnore # NoValue /\ pendingFixIgnore' = NoValue)
              => r.op \in {"fix", "ignore"}
         /\ r.op \in {"fix", "ignore"}
              => /\ pendingFixIgnore' = NoValue
                 /\ r.outcome = IF pendingFixIgnore = NoValue THEN "noop"
                                ELSE IF r.op = "fix" THEN "fixed"
                                ELSE "ignored"
                 /\ r.outcome = "fixed"
                      => state' = fix(pendingFixIgnore.v.check,
                                      pendingFixIgnore.candidate)
                 /\ r.outcome = "ignored"
                      => /\ state' = lastValidState
                         /\ UNCHANGED <<lastValidState, undoStack,
                                        redoStack, stored>>
                 /\ r.outcome = "noop"
                      => UNCHANGED <<state, lastValidState, undoStack,
                                     redoStack, stored, outputs,
                                     invalidMarks>> ]_vars

C23_Witness ==
  /\ Len(callLog) >= 3
  /\ Rec(2).outcome = "pending"
  /\ Rec(1).outcome \in {"fixed", "ignored"}
  /\ Rec(0).op \in {"fix", "ignore"}
  /\ Rec(0).outcome = "noop"
  /\ pendingFixIgnore = NoValue


(***************************************************************************)
(* C24: when an accepted change (valid commit, Fix, effective undo or      *)
(* redo) completes and the store accepts writes, the persisted snapshot    *)
(* equals the current configuration; Ignore and an invalid commit whose    *)
(* decision is pending leave the persisted snapshot as it was.             *)
(***************************************************************************)
C24_SnapshotFollowsAcceptedChange ==
  [][ LET r == Last(callLog')
      IN /\ ( /\ ~storageFails
              /\ \/ r.outcome \in {"accepted", "fixed"}
                 \/ r.op \in {"undo", "redo"} /\ r.outcome = "done" )
              => stored' = Json(state')
         /\ r.outcome \in {"ignored", "pending"}
              => stored' = stored ]_vars

C24_Witness ==
  /\ Len(callLog) >= 2
  /\ ~storageFails
  /\ Rec(1).outcome = "accepted"
  /\ Rec(0).op = "undo" /\ Rec(0).outcome = "done"
  /\ stored = Json(state)
  /\ stored # Json(Rec(0).P)


(***************************************************************************)
(* C25: in every reachable state the published mass-properties result is   *)
(* the result of computeVolumesAndMasses on the current configuration.     *)
(***************************************************************************)
C25_OutputsOfCurrentState ==
  outputs = computeVolumesAndMasses(state)


(***************************************************************************)
(* C26: the length of the redo stack equals the number of effective undos  *)
(* minus the number of effective redos since the most recent accepted      *)
(* commit, Fix or reset: it is empty at startup and after each of these,   *)
(* grows by one with an undo, shrinks by one with a redo, and no other     *)
(* handler run changes it.                                                 *)
(***************************************************************************)
C26_RedoCountsUndos ==
  /\ redoStack = <<>>
  /\ [][ LET r == Last(callLog')
         IN Len(redoStack') =
              IF r.outcome \in {"accepted", "fixed"} \/ r.op = "reset"
                THEN 0
              ELSE IF r.op = "undo" /\ r.outcome = "done"
                THEN Len(redoStack) + 1
              ELSE IF r.op = "redo" /\ r.outcome = "done"
                THEN Len(redoStack) - 1
              ELSE Len(redoStack) ]_vars

C26_Witness ==
  /\ Len(callLog) >= 3
  /\ Rec(2).op = "undo" /\ Rec(2).outcome = "done"
  /\ Rec(1).op = "undo" /\ Rec(1).outcome = "done"
  /\ Rec(0).op = "redo" /\ Rec(0).outcome = "done"
  /\ Len(redoStack) = 1


(***************************************************************************)
(* C27: for every configuration validateCandidate accepts, the cavity      *)
(* volume computed is max(0, (L-2t)(W-2t)(H-t))                            *)
(* + max(0, 0.5 (x_hopper-t)(H-t)(W-2t)): the inner dimensions enter       *)
(* unmodified, only the two volume terms are clamped (here in mm^3 / 2).   *)
(***************************************************************************)
C27_CavityVolumeFormula ==
  (outputs # NoValue /\ validateCandidate(state).ok)
    => LET L == state.L_rect
           W == state.W
           H == state.H
           x == state.x_hopper
           t == state.t_wall
       IN outputs.V_internal =
            Max(0, 2 * ((L - 2 * t) * (W - 2 * t) * (H - t)))
              + Max(0, (x - t) * (H - t) * (W - 2 * t))


(***************************************************************************)
(* C28: for every configuration, V_fill = V_internal *                     *)
(* clamp(fill_percentage/100, 0, 1); so 0 <= V_fill <= V_internal,         *)
(* V_fill = 0 when fill_percentage <= 0 and V_fill = V_internal when       *)
(* fill_percentage >= 100.  (V_fill is in mm^3 / 200, V_internal in        *)
(* mm^3 / 2: equal volumes differ by the factor 100.)                      *)
(***************************************************************************)
C28_FillVolumeClamped ==
  outputs # NoValue
    => LET p == state.fill_percentage
           V == outputs.V_internal
           clamp == IF p < 0 THEN 0 ELSE IF p > 100 THEN 100 ELSE p
       IN /\ outputs.V_fill = V * clamp
          /\ 0 <= outputs.V_fill /\ outputs.V_fill <= 100 * V
          /\ p <= 0 => outputs.V_fill = 0
          /\ p >= 100 => outputs.V_fill = 100 * V

C28_Witness ==
  /\ outputs # NoValue
  /\ state.fill_percentage = 150
  /\ ~validateCandidate(state).ok
  /\ outputs.V_internal > 0
  /\ outputs.V_fill = 100 * outputs.V_internal


(***************************************************************************)
(* C29: for every configuration validateCandidate accepts, cog_empty and   *)
(* cog_filled are defined; cog_filled is the mass-weighted combination of  *)
(* cog_empty and the dust centroid when there is dust (V_fill > 0) and     *)
(* m_dust > 0 and m_empty > 0, and is cog_empty otherwise, in particular   *)
(* when fill_percentage = 0.  For the default configuration (fill 80) the  *)
(* z coordinates of cog_filled and cog_empty differ.                       *)
(***************************************************************************)
\* n1/d1 = n2/d2 for positive d1, d2, compared by quotient and remainder
SameRatio(n1, d1, n2, d2) ==
  /\ n1 \div d1 = n2 \div d2
  /\ (n1 % d1) * d2 = (n2 % d2) * d1

Combined(r) == r.cog_filled # NoValue /\ "M1" \in DOMAIN r.cog_filled

\* z of (M1 c1 + M2 c2) / (M1 + M2) differs from z of c1 exactly when
\* M2 # 0 and the z of c2 differs from the z of c1
FilledHeightDiffers(r) ==
  /\ Combined(r)
  /\ r.cog_filled.M2 # 0
  /\ r.cog_filled.M1 + r.cog_filled.M2 # 0
  /\ ~SameRatio(r.cog_filled.c2.z, r.cog_filled.c2.w,
                r.cog_empty.z, r.cog_empty.w)

C29_CentresOfGravity ==
  /\ (outputs # NoValue /\ validateCandidate(state).ok)
       => /\ outputs.cog_empty # NoValue
          /\ outputs.cog_filled # NoValue
          /\ IF outputs.V_fill > 0 /\ outputs.m_dust > 0
                  /\ outputs.m_empty > 0
               THEN /\ Combined(outputs)
                    /\ outputs.cog_filled.c1 = outputs.cog_empty
                    /\ outputs.cog_filled.M1 = 100 * outputs.m_empty
                    /\ outputs.cog_filled.M2 = 113 * outputs.m_dust
                    /\ outputs.cog_filled.c2.x = 300 * state.L_rect
                    /\ outputs.cog_filled.c2.y = 0
                    /\ outputs.cog_filled.c2.w = 100
               ELSE outputs.cog_filled = outputs.cog_empty
          /\ state.fill_percentage = 0
               => outputs.cog_filled = outputs.cog_empty
  /\ DEFAULTS.fill_percentage = 80
  /\ validateCandidate(DEFAULTS).ok
  /\ FilledHeightDiffers(computeVolumesAndMasses(DEFAULTS))

C29_Witness ==
  /\ outputs # NoValue
  /\ validateCandidate(state).ok
  /\ state.include_lid /\ state.include_frame /\ state.x_hopper > 0
  /\ state.fill_percentage = 55
  /\ outputs.m_dust > 0 /\ outputs.m_empty > 0
  /\ FilledHeightDiffers(outputs)


(***************************************************************************)
(* C30: when one or several imported objects overlap the container with    *)
(* positive volume, the overlap shown (extents of the marker) and its      *)
(* volume are those of the first such object in insertion order; objects   *)
(* inserted before it that only touch the container or miss it are         *)
(* skipped.                                                                *)
(***************************************************************************)
OverlapBox(a, b) ==
  Box3([k \in 1..3 |-> Max(a.min[k], b.min[k])],
       [k \in 1..3 |-> Min(a.max[k], b.max[k])])

Hits ==
  { i \in 1..Len(importedObjects) :
      PositiveOverlap(boxContainer(state, containerPos),
                      boxOf(importedObjects[i])) }

C30_FirstOverlapReported ==
  [][ (overlapLog' # overlapLog /\ Hits # {})
        => \E j \in Hits :
             /\ \A k \in Hits : j <= k
             /\ \A a \in {boxContainer(state, containerPos)} :
                  \A b \in {boxOf(importedObjects[j])} :
                    /\ collisionMarker'.visible
                    /\ collisionMarker'.box = OverlapBox(a, b)
                    /\ Last(overlapLog').volume =
                         OverlapLength(a, b, 1) * OverlapLength(a, b, 2)
                           * OverlapLength(a, b, 3) ]_vars

C30_Witness ==
  /\ Len(importedObjects) = 2
  /\ Hits = {1, 2}
  /\ collisionMarker # NoValue
  /\ collisionMarker.visible
  /\ overlapLog # <<>>
  /\ \A a \in {boxContainer(state, containerPos)} :
       /\ collisionMarker.box = OverlapBox(a, boxOf(importedObjects[1]))
       /\ collisionMarker.box # OverlapBox(a, boxOf(importedObjects[2]))
       /\ Last(overlapLog).volume =
            overlapVolume(a, boxOf(importedObjects[1]))
       /\ Last(overlapLog).volume #
            overlapVolume(a, boxOf(importedObjects[2]))

C30_SkippedWitness ==
  /\ Len(importedObjects) = 2
  /\ Hits = {2}
  /\ intersectsBox(boxContainer(state, containerPos),
                   boxOf(importedObjects[1]))
  /\ collisionMarker # NoValue
  /\ collisionMarker.visible
  /\ collisionMarker.box = OverlapBox(boxContainer(state, containerPos),
                                      boxOf(importedObjects[2]))


(***************************************************************************)
(* C31: when a shell-material edit is committed, the snapshot it pushes    *)
(* onto the undo stack (the configuration undo() restores) carries the     *)
(* shell material tag and shell density that were current before the edit. *)
(***************************************************************************)
C31_ShellEditUndoable ==
  [][ (Last(callLog').op = "shell" /\ Last(callLog').outcome = "accepted")
        => /\ undoStack' # <<>>
           /\ Last(undoStack').shell_material = state.shell_material
           /\ Last(undoStack').rho_shell = state.rho_shell ]_vars


(***************************************************************************)
(* C32: in every reachable state the fill_percentage of the current        *)
(* configuration lies in [0, 100].                                         *)
(***************************************************************************)
C32_FillPercentageInRange ==
  0 <= state.fill_percentage /\ state.fill_percentage <= 100


(***************************************************************************)
(* C33: importing the text exportConfig produces for the current           *)
(* configuration rebuilds a candidate field-for-field equal to the current *)
(* configuration, and the commit that follows leaves the current           *)
(* configuration as it was.                                                *)
(***************************************************************************)
C33_ExportImportRoundTrip ==
  [][ Last(callLog').op = "reimport"
        => /\ Last(callLog').C = state
           /\ state' = state ]_vars

C33_Witness ==
  /\ Len(callLog) >= 2
  /\ Rec(1).op = "import" /\ Rec(1).outcome = "accepted"
  /\ "legacy_field" \in DOMAIN Rec(1).C
  /\ Rec(0).op = "reimport" /\ Rec(0).outcome = "accepted"
  /\ state # deepClone(DEFAULTS)
  /\ state = Rec(0).C /\ state = Rec(1).C


(***************************************************************************)
(* C34: whenever no Fix/Ignore decision is pending the current             *)
(* configuration equals the last-known-valid one; and Ignore returns the   *)
(* current configuration to what it was when the rejected edit began       *)
(* (here: for an edit rejected two handler runs before the Ignore).        *)
(***************************************************************************)
C34_CurrentIsLastValid ==
  /\ pendingFixIgnore = NoValue => state = lastValidState
  /\ ( /\ Len(callLog) >= 3
       /\ Rec(2).outcome = "pending" /\ Rec(2).op # "shell"
       /\ Rec(1).outcome \notin {"pending", "fixed", "ignored"}
       /\ Rec(0).outcome = "ignored" )
       => state = Rec(2).P

\* the first half of C34 on its own
C34_EqualWhenNothingPending ==
  pendingFixIgnore = NoValue => state = lastValidState


(***************************************************************************)
(* C35: every effective undo or redo leaves the sum of the lengths of the  *)
(* undo and redo stacks unchanged, and in every reachable state that sum   *)
(* is at most 50 (so the push of redo() never exceeds the capacity).       *)
(***************************************************************************)
C35_SnapshotsConserved ==
  /\ [](Len(undoStack) + Len(redoStack) <= MaxHistory)
  /\ [][ (Last(callLog').op \in {"undo", "redo"}
            /\ Last(callLog').outcome = "done")
           => /\ Len(undoStack') + Len(redoStack')
                   = Len(undoStack) + Len(redoStack)
              /\ Len(undoStack') <= MaxHistory ]_vars

C35_Witness ==
  /\ Len(callLog) >= 3
  /\ Rec(2).op = "undo" /\ Rec(2).outcome = "done"
  /\ Rec(1).op = "undo" /\ Rec(1).outcome = "done"
  /\ Rec(0).op = "redo" /\ Rec(0).outcome = "done"
  /\ Len(undoStack) = MaxHistory - 1
  /\ Len(redoStack) = 1


(***************************************************************************)
(* C36: history is last-in first-out over the commits: after two directly  *)
(* valid commits in a row an undo leaves the configuration that was        *)
(* current after the first of them, a second undo the one current before   *)
(* it, and redos return the same way.                                      *)
(***************************************************************************)
C36_HistoryLIFO ==
  /\ ( /\ Len(callLog) >= 3
       /\ Rec(2).outcome = "accepted" /\ Rec(1).outcome = "accepted"
       /\ Rec(0).op = "undo" /\ Rec(0).outcome = "done" )
       => state = Rec(2).C
  /\ ( /\ Len(callLog) >= 3
       /\ Rec(2).outcome = "accepted"
       /\ Rec(1).op = "undo" /\ Rec(1).outcome = "done"
       /\ Rec(0).op = "undo" /\ Rec(0).outcome = "done" )
       => /\ redoStack[Len(redoStack)] = Rec(2).P
          /\ redoStack[Len(redoStack) - 1] = Rec(2).C
  /\ ( /\ Len(callLog) >= 3
       /\ Rec(2).op = "undo" /\ Rec(2).outcome = "done"
       /\ Rec(1).op = "undo" /\ Rec(1).outcome = "done"
       /\ Rec(0).op = "redo" /\ Rec(0).outcome = "done" )
       => state = Rec(1).P


(***************************************************************************)
(* C37: each remedy changes only the fields of its own check: positivity   *)
(* only L_rect, H, W, t_wall (each only if below its floor), wall          *)
(* thickness only t_wall, hopper only x_hopper, frame height only H_frame, *)
(* pocket budget only W_pocket, lid hole only r_hole; validation itself    *)
(* changes no field of the candidate.                                      *)
(***************************************************************************)
RemedyFields(check) ==
  CASE check = "positive" -> {"L_rect", "H", "W", "t_wall"}
    [] check = "wall" -> {"t_wall"}
    [] check = "hopper" -> {"x_hopper"}
    [] check = "frame" -> {"H_frame"}
    [] check = "pockets" -> {"W_pocket"}
    [] check = "lid" -> {"r_hole"}

RemedyFloor(f) == IF f = "t_wall" THEN 2 ELSE 100

C37_RemedyFrame ==
  [][ LET r == Last(callLog')
      IN /\ r.outcome = "fixed"
              => \A c \in {pendingFixIgnore.candidate} :
                   \A check \in {pendingFixIgnore.v.check} :
                     /\ DOMAIN state' = DOMAIN c
                     /\ c = r.C
                     /\ \A f \in DOMAIN c :
                          state'[f] # c[f]
                            => /\ f \in RemedyFields(check)
                               /\ check = "positive"
                                    => c[f] < RemedyFloor(f)
         /\ r.outcome = "pending" => pendingFixIgnore'.candidate = r.C
         /\ r.outcome = "accepted" => state' = r.C ]_vars

C37_Witness ==
  /\ Len(callLog) >= 2
  /\ Rec(1).outcome = "pending" /\ Rec(1).C.W = 0
  /\ Rec(0).outcome = "fixed" /\ Rec(0).C = Rec(1).C
  /\ state.W = 100
  /\ \A f \in DOMAIN state \ {"W"} : state[f] = Rec(1).C[f]


(***************************************************************************)
(* C38: in the earlier commit protocol of part_000, resolving an invalid   *)
(* commit with Fix clears the redo stack, as a directly valid commit does. *)
(***************************************************************************)
C38_EarlierFixClearsRedo ==
  [][ /\ (Last(callLog').op = "fix" /\ Last(callLog').outcome = "fixed")
           => redoStack' = <<>>
      /\ Last(callLog').outcome = "accepted" => redoStack' = <<>> ]_vars


(***************************************************************************)
(* C39: in the index-based history of part_000, after init every state has *)
(* 0 <= historyIndex <= historyStack.length - 1 and at most 20 snapshots;  *)
(* pushHistory discards every entry after historyIndex before it appends;  *)
(* undo at index 0 and redo at the last entry change nothing; and an undo  *)
(* followed by a redo restores the parameters that were current before.    *)
(***************************************************************************)
C39_IndexInRange ==
  /\ 0 <= historyIndex
  /\ historyIndex <= Len(historyStack) - 1
  /\ Len(historyStack) <= HistoryLimit

C39_PushDiscardsTail ==
  [][ Last(callLog').outcome = "pushed"
        => /\ historyIndex' = Len(historyStack') - 1
           /\ Last(historyStack') = stringifyParams(params')
           /\ \E d \in {0, 1} :
                /\ Len(historyStack') = historyIndex + 2 - d
                /\ \A i \in 1..(historyIndex + 1 - d) :
                     historyStack'[i] = historyStack[i + d] ]_vars

C39_EdgeNoOps ==
  [][ /\ (Last(callLog').op = "undo" /\ historyIndex = 0)
           => UNCHANGED <<params, historyStack, historyIndex>>
      /\ (Last(callLog').op = "redo"
            /\ historyIndex = Len(historyStack) - 1)
           => UNCHANGED <<params, historyStack, historyIndex>> ]_vars

C39_UndoRedoRestores ==
  (/\ Len(callLog) >= 2
   /\ Rec(1).op = "undo" /\ Rec(1).outcome = "done"
   /\ Rec(0).op = "redo" /\ Rec(0).outcome = "done")
    => params = Rec(1).P

C39_IndexedHistory ==
  /\ [](C39_IndexInRange /\ C39_UndoRedoRestores)
  /\ C39_PushDiscardsTail
  /\ C39_EdgeNoOps

====
